---- MODULE Spec2Model ----
(***************************************************************************)
(* Zipadee core: middleware composition (compose), path mounting (mount,   *)
(* matchPath), the html template engine (escape, toString, HTMLIterator,   *)
(* pipeToWritable, Response.respond's writeResult), and the dispatch of a  *)
(* request by App.#callback with its Response.                             *)
(*                                                                         *)
(* Strings are sequences of one-character strings, so that escaping,       *)
(* prefix tests and indentation are computed character by character.       *)
(***************************************************************************)
EXTENDS Integers, Sequences, FiniteSets, TLC

VARIABLES
  \* ---- compose (middleware.ts) ----
  chain,      \* the middleware list given to compose: a sequence of kinds
  called,     \* the `called` flag of each closure built by compose
  stack,      \* the chain of pending async calls (innermost last)
  log,        \* the tokens written by the middleware, in order
  termCalls,  \* how many times the caller's terminal continue has run
  status,     \* the composed promise: idle, running, resolved, rejected
  err,        \* the error the composed promise rejected with
  \* ---- matchPath (middleware.ts) ----
  mPrefix,    \* matchPath's prefix argument
  mPath,      \* matchPath's path argument
  mResult,    \* matchPath's result, once it has been called
  \* ---- escape (html) ----
  escIn,      \* escape's argument
  escOut,     \* escape's result, once it has been called
  \* ---- html templates ----
  root,       \* the HTMLPartial being rendered
  consumer,   \* what the application does with it: "render" (toString and
              \* iteration), "respond" (response body) or "pipe" (pipeToWritable)
  itStack,    \* HTMLIterator.#stack
  chunks,     \* what next() has returned so far, with each chunk's origin
  itDone,     \* next() has returned {done: true}
  strOut,     \* the pieces of root.toString(), once it has been called
  wStack,     \* respond(): the nested writeResult loops (innermost last)
  written,    \* respond(): what was handed to res.write, in order
  resolved,   \* the pending values that have resolved
  wStatus,    \* respond(): idle, running, awaiting, ended, failed
  wAwait,     \* respond(): the pending value being awaited
  \* ---- pipeToWritable ----
  pFlush,     \* options.flushSize
  pipe,       \* the writer: status, stack, writeSize, value, uncork
  sink,       \* the Writable: corked, held (corked data), out, full
  \* ---- mount (middleware.ts) ----
  mountPrefix,  \* mount's prefix argument
  kindB,        \* the mounted middleware: "await" its continue, or "stop"
  kindC,        \* the middleware after mount: "return" or "throw"
  inPath,       \* the path of the incoming request
  reqPath,      \* req.path
  originalPath, \* mount's local `originalPath`
  subpath,      \* mount's local `subpath`
  mountPc,      \* where the chain [A, mount(prefix, B), C] is
  reads,        \* the values of req.path the middleware have read, in order
  \* ---- App.#callback and Response (app.ts) ----
  dev,        \* App.#devMode
  cbPc,       \* where #callback is: idle, middleware, respond, catch, finish,
              \* done, escaped (an error left the callback)
  resp,       \* the Response: #statusCodeSet, #body
  res,        \* the ServerResponse (response.baseResponse)
  thrown,     \* the error the try block threw
  ops,        \* how many actions the middleware has taken
  hist,       \* what the middleware did: explicit status, body, write
  atFault,    \* the ServerResponse as it was when the error was caught
  \* ---- rendering one template several times ----
  spent,      \* the one-shot iterables (generators, Map/Set iterators) among
              \* the values that have been iterated to their end
  renders,    \* the renders made so far: kind, output, the node afterwards
  \* ---- Request: protocol, host, origin (request.ts) ----
  rq,         \* the incoming request and the trustProxy option
  rqOut,      \* what its protocol, host and origin getters returned
  \* ---- URLPatternList (part_018) ----
  items,      \* #items: the patterns added, in order, each with its value
  lOut,       \* the last call of match: its path, the list length, its result
  \* ---- two invocations of one composed function (middleware.ts) ----
  runs,       \* per invocation: the chain of pending async calls, its status
  guards      \* per invocation: the `called` flag of each of its closures

composeVars == <<chain, called, stack, log, termCalls, status, err>>
matchVars == <<mPrefix, mPath, mResult>>
escVars == <<escIn, escOut>>
htmlVars == <<root, consumer, itStack, chunks, itDone, strOut, wStack, written, resolved,
             wStatus, wAwait, pFlush, pipe, sink>>
mountVars == <<mountPrefix, kindB, kindC, inPath, reqPath, originalPath, subpath, mountPc, reads>>
appVars == <<dev, cbPc, resp, res, thrown, ops, hist, atFault>>
renderVars == <<spent, renders>>
requestVars == <<rq, rqOut>>
listVars == <<items, lOut>>
runVars == <<runs, guards>>
vars ==
  <<composeVars, matchVars, escVars, htmlVars, mountVars, appVars, renderVars,
    requestVars, listVars, runVars>>

\* ------------------------------------------------------------------------
\* Generic helpers
\* ------------------------------------------------------------------------
Last(s) == s[Len(s)]
Front(s) == SubSeq(s, 1, Len(s) - 1)
Range(s) == {s[i] : i \in 1..Len(s)}

RECURSIVE Concat(_)
Concat(ss) == IF ss = <<>> THEN <<>> ELSE Head(ss) \o Concat(Tail(ss))

SeqsUpTo(S, n) == UNION {[1..k -> S] : k \in 0..n}

\* the result of a call that has not been made yet
Unset == [done |-> FALSE, ok |-> FALSE, v |-> <<>>]

\* ------------------------------------------------------------------------
\* compose
\* ------------------------------------------------------------------------
MaxChain == 3

\* The middleware the chain is made of.  "await": write a pre-token, await
\* next(), write a post-token.  "stop": write a token and return without
\* calling next.  "twice": as "await", but awaits next() a second time
\* before the post-token.
Kinds == {"await", "stop", "twice"}

Chains == SeqsUpTo(Kinds, MaxChain)

Middleware(ch) == [i \in 1..Len(ch) |-> [id |-> i, kind |-> ch[i]]]

toReversedMutant(s) == s
toReversed(s) == [i \in 1..Len(s) |-> s[Len(s) + 1 - i]]

DownstreamOfMutant(j) == 0
\* `const downstreamNext = next`: the closure built in loop round j continues
\* to the one built in round j - 1; 0 is the caller's own next.
DownstreamOf(j) == j - 1

\* The closures the loop of compose builds, in the order it builds them.
Closures(ch) ==
  [j \in 1..Len(ch) |-> [fn |-> toReversed(Middleware(ch))[j], down |-> DownstreamOf(j)]]

\* `next` after the loop: the closure built last, or the caller's next.
Entry(ch) == Len(ch)

TooMany == "next() called more than once"

Top == Last(stack)
SetTop(f) == [stack EXCEPT ![Len(stack)] = f]

\* The continuation the running frame calls: the composed function (cl = 0)
\* calls `next`, a middleware calls the downstreamNext it was given.
Target(f) == IF f.cl = 0 THEN Entry(chain) ELSE Closures(chain)[f.cl].down

KindOf(f) == IF f.cl = 0 THEN "composed" ELSE Closures(chain)[f.cl].fn.kind
IdOf(f) == Closures(chain)[f.cl].fn.id

\* Where a frame goes on once an awaited next() has resolved for the
\* n-th time.
AfterCall(f, n) ==
  IF KindOf(f) = "composed" THEN "ret"
  ELSE IF KindOf(f) = "twice" /\ n < 2 THEN "call"
  ELSE "post"

ComposeIdle ==
  /\ called = [j \in 1..Len(chain) |-> FALSE]
  /\ stack = <<>>
  /\ log = <<>>
  /\ termCalls = 0
  /\ status = "idle"
  /\ err = "none"

\* The composed middleware is invoked (middleware.ts line 11): each closure
\* gets a fresh `called = false`, then `await next()`.
Invoke ==
  /\ status = "idle"
  /\ status' = "running"
  /\ stack' = <<[cl |-> 0, pc |-> "call", calls |-> 0]>>
  /\ UNCHANGED <<chain, called, log, termCalls, err>>

\* A middleware writes its pre-token.
Pre ==
  /\ status = "running" /\ stack # <<>> /\ Top.pc = "pre"
  /\ log' = Append(log, [ph |-> "pre", id |-> IdOf(Top)])
  /\ stack' = SetTop([Top EXCEPT !.pc = IF KindOf(Top) = "stop" THEN "ret" ELSE "call"])
  /\ UNCHANGED <<chain, called, termCalls, status, err>>

\* next() where next is the caller's terminal continue (`async () => {}`):
\* it has no guard and resolves at once.
CallTerminal ==
  /\ status = "running" /\ stack # <<>> /\ Top.pc = "call"
  /\ Target(Top) = 0
  /\ termCalls' = termCalls + 1
  /\ stack' = SetTop([Top EXCEPT !.calls = @ + 1, !.pc = AfterCall(Top, Top.calls + 1)])
  /\ UNCHANGED <<chain, called, log, status, err>>

\* next() on a closure of compose that has not run yet: `called = true;
\* await fn(req, res, downstreamNext)`.
CallDownstream ==
  /\ status = "running" /\ stack # <<>> /\ Top.pc = "call"
  /\ Target(Top) > 0
  /\ ~called[Target(Top)]
  /\ called' = [called EXCEPT ![Target(Top)] = TRUE]
  /\ stack' = Append(SetTop([Top EXCEPT !.pc = "wait"]),
                     [cl |-> Target(Top), pc |-> "pre", calls |-> 0])
  /\ UNCHANGED <<chain, log, termCalls, status, err>>

\* next() on a closure of compose that already ran: it throws, and the
\* awaiting middleware does not catch.
CallGuardFault ==
  /\ status = "running" /\ stack # <<>> /\ Top.pc = "call"
  /\ Target(Top) > 0
  /\ called[Target(Top)]
  /\ err' = TooMany
  /\ stack' = SetTop([Top EXCEPT !.pc = "throw"])
  /\ UNCHANGED <<chain, called, log, termCalls, status>>

\* A middleware writes its post-token.
Post ==
  /\ status = "running" /\ stack # <<>> /\ Top.pc = "post"
  /\ log' = Append(log, [ph |-> "post", id |-> IdOf(Top)])
  /\ stack' = SetTop([Top EXCEPT !.pc = "ret"])
  /\ UNCHANGED <<chain, called, termCalls, status, err>>

\* An async function returns: its promise resolves and the awaiting caller
\* goes on; the composed function returning resolves the composed promise.
Return ==
  /\ status = "running" /\ stack # <<>> /\ Top.pc = "ret"
  /\ IF Len(stack) = 1
       THEN /\ stack' = <<>>
            /\ status' = "resolved"
       ELSE LET caller == stack[Len(stack) - 1]
                n == caller.calls + 1
            IN /\ stack' = [Front(stack) EXCEPT ![Len(stack) - 1] =
                              [caller EXCEPT !.calls = n, !.pc = AfterCall(caller, n)]]
               /\ status' = status
  /\ UNCHANGED <<chain, called, log, termCalls, err>>

\* An async function throws: its promise rejects, and so does the `await`
\* of its caller.
Propagate ==
  /\ status = "running" /\ stack # <<>> /\ Top.pc = "throw"
  /\ IF Len(stack) = 1
       THEN /\ stack' = <<>>
            /\ status' = "rejected"
       ELSE /\ stack' = [Front(stack) EXCEPT ![Len(stack) - 1].pc = "throw"]
            /\ status' = status
  /\ UNCHANGED <<chain, called, log, termCalls, err>>

\* ------------------------------------------------------------------------
\* matchPath
\* ------------------------------------------------------------------------
MaxPathLen == 4

PathChars == {"/", "a", "b"}
Paths == SeqsUpTo(PathChars, MaxPathLen)

\* String.prototype.startsWith / substring / at(-1)
startsWith(str, p) == Len(p) <= Len(str) /\ SubSeq(str, 1, Len(p)) = p
substring(str, n) == SubSeq(str, n + 1, Len(str))
endsWithSlash(str) == str # <<>> /\ str[Len(str)] = "/"

\* matchPath's two kinds of result: false, or the new path
NoSubpath == [done |-> TRUE, ok |-> FALSE, v |-> <<>>]
Subpath(p) == [done |-> TRUE, ok |-> TRUE, v |-> p]

matchPathMutant(prefix, path) ==
  IF ~startsWith(path, prefix) THEN NoSubpath
  ELSE LET subPath == substring(path, Len(prefix))
       IN IF subPath = <<>> THEN Subpath(<<"/">>)
          ELSE IF endsWithSlash(prefix) THEN Subpath(<<"/">> \o subPath)
          ELSE Subpath(subPath)

matchPath(prefix, path) ==
  IF ~startsWith(path, prefix) THEN NoSubpath
  ELSE LET subPath == substring(path, Len(prefix))
       IN IF subPath = <<>> THEN Subpath(<<"/">>)
          ELSE IF endsWithSlash(prefix) THEN Subpath(<<"/">> \o subPath)
          ELSE IF subPath[1] # "/" THEN NoSubpath
          ELSE Subpath(subPath)

\* mount calls matchPath(prefix, req.path)
MatchCall ==
  /\ ~mResult.done
  /\ mResult' = matchPath(mPrefix, mPath)
  /\ UNCHANGED <<mPrefix, mPath>>

\* ------------------------------------------------------------------------
\* escape
\* ------------------------------------------------------------------------
MaxStrLen == 3

EscChars == {"&", "<", ">", "\"", "'", "a"}

\* the keys of `replacements`, i.e. the character class of the regex
Special == {"&", "<", ">", "\"", "'"}

\* the `replacements` table
replacer(c) ==
  CASE c = "&" -> <<"&", "a", "m", "p", ";">>
    [] c = "<" -> <<"&", "l", "t", ";">>
    [] c = ">" -> <<"&", "g", "t", ";">>
    [] c = "\"" -> <<"&", "q", "u", "o", "t", ";">>
    [] c = "'" -> <<"&", "a", "p", "o", "s">>

\* str.replaceAll(/[&<>"']/g, replacer)
RECURSIVE escape(_)
escape(str) ==
  IF str = <<>> THEN <<>>
  ELSE (IF Head(str) \in Special THEN replacer(Head(str)) ELSE <<Head(str)>>)
       \o escape(Tail(str))

EscapeCall ==
  /\ ~escOut.done
  /\ escOut' = [done |-> TRUE, ok |-> TRUE, v |-> escape(escIn)]
  /\ UNCHANGED escIn

\* ------------------------------------------------------------------------
\* html templates: values
\* ------------------------------------------------------------------------
\* Every value has the same shape: k is its runtime type, s its characters
\* (for a pending value: its identity), strs/vals the strings and values of
\* a template, vals the elements of an array or iterable, or the single
\* value a pending value resolves to.
Value(k, s, strs, vals) == [k |-> k, s |-> s, strs |-> strs, vals |-> vals]

Str(s) == Value("string", s, <<>>, <<>>)
Null == Value("null", <<>>, <<>>, <<>>)
\* a value that is none of the others (number, boolean, object, URL ...):
\* s is what String(value) returns
Other(s) == Value("other", s, <<>>, <<>>)
Unsafe(s) == Value("unsafe", s, <<>>, <<>>)
Html(strs, vals) == Value("html", <<>>, strs, vals)
Arr(vals) == Value("array", <<>>, <<>>, vals)
\* an iterable that is not an array and can be iterated again (a Set ...)
Iter(vals) == Value("iterable", <<>>, <<>>, vals)
Pending(id, v) == Value("promise", <<id>>, <<>>, <<v>>)
\* what a promise that rejects settles to: awaiting it throws
Rejection == Value("rejected", <<>>, <<>>, <<>>)

\* the origin of a chunk that is template text
Literal(text) == Value("literal", text, <<>>, <<>>)

\* String(value) for a value that is neither null nor a string
StringOf(v) == IF v.k = "promise" THEN <<"[object Promise]">> ELSE v.s

\* array[k] / strings[k] (0-based): undefined when out of range
ValueAt(vals, k) == IF k + 1 \in 1..Len(vals) THEN vals[k + 1] ELSE Null
StringAt(strs, k) == IF k + 1 \in 1..Len(strs) THEN strs[k + 1] ELSE <<"undefined">>

\* ------------------------------------------------------------------------
\* HTMLIterator
\* ------------------------------------------------------------------------
\* HTMLIteratorState.  For kind "iterable" the code keeps the position
\* inside the container's own iterator; the model keeps it in index.
Frame(kind, index, container) == [kind |-> kind, index |-> index, container |-> container]

StringChunk(text, src) == [pending |-> FALSE, text |-> text, src |-> src]
PendingChunk(p) == [pending |-> TRUE, text |-> <<>>, src |-> p]
NoChunk == [pending |-> FALSE, text |-> <<>>, src |-> Null]

\* `done = index > container.values.length` (kind html, odd index)
HtmlDone(index, container) == index > Len(container.vals)
\* `done = index >= container.length`, and an iterator's `next.done`
ArrayDone(index, container) == index >= Len(container.vals)

\* what next() returns for a string value ("Do nothing") and for a value of
\* any other type (`String(value)`)
IterString(v) == v.s
IterOther(v) == StringOf(v)

\* HTMLIterator.next() on the stack st: the stack it leaves and the result.
RECURSIVE IterNext(_)
IterNext(st) ==
  IF st = <<>> THEN [stack |-> st, done |-> TRUE, value |-> NoChunk]
  ELSE
    LET state == Last(st)
        index == state.index
        container == state.container
        isHtml == state.kind = "html"
        i == index \div 2
        st1 == [st EXCEPT ![Len(st)].index = index + 1]
        done == IF isHtml THEN HtmlDone(index, container) ELSE ArrayDone(index, container)
        value == IF isHtml THEN ValueAt(container.vals, i) ELSE ValueAt(container.vals, index)
    IN IF isHtml /\ index % 2 = 0
         THEN [stack |-> st1, done |-> FALSE,
               value |-> StringChunk(StringAt(container.strs, i), Literal(StringAt(container.strs, i)))]
       ELSE IF done THEN IterNext(Front(st1))
       ELSE CASE value.k = "null" -> [stack |-> st1, done |-> FALSE, value |-> StringChunk(<<>>, value)]
              [] value.k = "string" ->
                   [stack |-> st1, done |-> FALSE, value |-> StringChunk(IterString(value), value)]
              [] value.k = "html" -> IterNext(Append(st1, Frame("html", 0, value)))
              [] value.k = "array" -> IterNext(Append(st1, Frame("array", 0, value)))
              [] value.k = "iterable" -> IterNext(Append(st1, Frame("iterable", 0, value)))
              [] value.k = "unsafe" ->
                   [stack |-> st1, done |-> FALSE, value |-> StringChunk(value.s, value)]
              [] value.k = "promise" -> [stack |-> st1, done |-> FALSE, value |-> PendingChunk(value)]
              [] OTHER -> [stack |-> st1, done |-> FALSE, value |-> StringChunk(IterOther(value), value)]

\* new HTMLIterator(partial)
NewIterator(partial) == <<Frame("html", 0, partial)>>

\* ------------------------------------------------------------------------
\* toString
\* ------------------------------------------------------------------------
Min2(a, b) == IF a <= b THEN a ELSE b
MinOf(S) == CHOOSE x \in S : \A y \in S : x <= y
Spaces(n) == [i \in 1..n |-> " "]

\* [ \t] and the complement of \S
Blank == {" ", "\t"}
WhiteSpace == {" ", "\t", "\n"}

\* the length of the run of [ \t] that starts at position p (1-based)
RECURSIVE BlankRun(_, _)
BlankRun(str, p) ==
  IF p <= Len(str) /\ str[p] \in Blank THEN 1 + BlankRun(str, p + 1) ELSE 0

\* indentRegex.exec(str) with lastIndex = 0: the first "\n" that is followed
\* by a run of [ \t] and then a non-whitespace character; full and group
\* are the lengths of match[0] and match[1].
indentExec(str) ==
  LET hits == {p \in 1..Len(str) :
                 /\ str[p] = "\n"
                 /\ p + BlankRun(str, p + 1) + 1 <= Len(str)
                 /\ str[p + BlankRun(str, p + 1) + 1] \notin WhiteSpace}
  IN IF hits = {} THEN [found |-> FALSE, full |-> 0, group |-> 0]
     ELSE LET p == MinOf(hits)
          IN [found |-> TRUE, full |-> BlankRun(str, p + 1) + 2, group |-> BlankRun(str, p + 1)]

\* the loop over this.strings that computes minIndent; -1 stands for the
\* initial Infinity (no string has a match)
minIndentOf(strs) ==
  LET lens == UNION {{indentExec(strs[i]).full, indentExec(strs[i]).group} :
                       i \in {j \in 1..Len(strs) : indentExec(strs[j]).found}}
  IN IF lens = {} THEN -1 ELSE MinOf(lens)

\* one line of fixIndent, from the line start p on
RECURSIVE fixFrom(_, _, _, _)
fixFrom(remove, add, str, p) ==
  LET rest == p + Min2(remove, BlankRun(str, p))
      nls == {q \in rest..Len(str) : str[q] = "\n"}
  IN Spaces(add) \o
     (IF nls = {} THEN SubSeq(str, rest, Len(str))
      ELSE SubSeq(str, rest, MinOf(nls)) \o fixFrom(remove, add, str, MinOf(nls) + 1))

\* fixIndent: s.replaceAll(/^[ \t]{0,remove}/gm, ' '.repeat(add)).  With
\* remove = Infinity the braces are no quantifier but literal text, which
\* no line of a template here contains: nothing is replaced.
fixIndent(remove, add, str) ==
  IF remove = -1 THEN str ELSE fixFrom(remove, add, str, 1)

Piece(text, src) == [text |-> text, src |-> src]

\* toString(v, currentIndent) and HTMLPartial.toString(indent), as the
\* pieces they concatenate, each with the value or literal it renders.
RECURSIVE toStringPieces(_, _), partialPieces(_, _)
toStringPieces(v, currentIndent) ==
  CASE v.k = "null" -> <<Piece(<<>>, v)>>
    [] v.k = "string" -> <<Piece(escape(v.s), v)>>
    [] v.k = "html" -> partialPieces(v, currentIndent)
    [] v.k \in {"array", "iterable"} ->
         \* Array.from(v).map(toString): map passes the element's index as
         \* the second argument
         Concat([idx \in 1..Len(v.vals) |-> toStringPieces(v.vals[idx], idx - 1)])
    [] v.k = "unsafe" -> <<Piece(v.s, v)>>
    [] OTHER -> <<Piece(escape(StringOf(v)), v)>>

partialPieces(t, indent) ==
  LET minIndent == minIndentOf(t.strs)
      cur[i \in 0..Len(t.vals)] ==
        IF i = 0 THEN indent
        ELSE IF indentExec(t.strs[i]).found
               THEN indentExec(t.strs[i]).group - minIndent + indent
               ELSE cur[i - 1]
  IN <<Piece(fixIndent(minIndent, indent, t.strs[1]), Literal(t.strs[1]))>> \o
     Concat([i \in 1..Len(t.vals) |->
               toStringPieces(t.vals[i], cur[i]) \o
               <<Piece(fixIndent(minIndent, indent, t.strs[i + 1]), Literal(t.strs[i + 1]))>>])

Texts(pieces) == Concat([i \in 1..Len(pieces) |-> pieces[i].text])

\* partial.toString()
partialToString(t) == Texts(partialPieces(t, 0))

\* partial[Symbol.iterator]() and one call of next() by the application
IterNextCall ==
  /\ consumer = "render"
  /\ ~itDone
  /\ LET r == IterNext(itStack)
     IN /\ itStack' = r.stack
        /\ itDone' = r.done
        /\ chunks' = IF r.done THEN chunks ELSE Append(chunks, r.value)
  /\ UNCHANGED <<root, consumer, strOut, wStack, written, resolved, wStatus, wAwait,
                 pFlush, pipe, sink>>

\* partial.toString() called by the application
ToStringCall ==
  /\ consumer = "render"
  /\ ~strOut.done
  /\ strOut' = [done |-> TRUE, ok |-> TRUE, v |-> partialPieces(root, 0)]
  /\ UNCHANGED <<root, consumer, itStack, chunks, itDone, wStack, written, resolved,
                 wStatus, wAwait, pFlush, pipe, sink>>

\* ------------------------------------------------------------------------
\* Pending values
\* ------------------------------------------------------------------------
RECURSIVE PendingIds(_)
PendingIds(v) ==
  (IF v.k = "promise" THEN {v.s[1]} ELSE {}) \cup
  UNION {PendingIds(v.vals[i]) : i \in 1..Len(v.vals)}

\* A pending value of the template settles (at any time, in any order).
ResolvePending ==
  /\ consumer \in {"respond", "pipe"}
  /\ \E id \in PendingIds(root) \ resolved : resolved' = resolved \cup {id}
  /\ UNCHANGED <<root, consumer, itStack, chunks, itDone, strOut, wStack, written,
                 wStatus, wAwait, pFlush, pipe, sink>>

\* ------------------------------------------------------------------------
\* Response.respond with an HTMLPartial body: writeResult
\* ------------------------------------------------------------------------
\* One running `for (const chunk of result)` loop: over an HTMLIterator
\* (it = "html", st its stack) or over the elements of an array or other
\* iterable a pending value resolved to (it = "raw").
WLoop(it, st, index, container) ==
  [it |-> it, st |-> st, index |-> index, container |-> container]

PushLoopMutant(loops, l) == <<l>> \o loops
\* `await writeResult(v)`: the nested loop runs before the loop that
\* awaits it goes on
PushLoop(loops, l) == Append(loops, l)

\* the next chunk of the innermost loop: [loops, done, value]
WNextChunk(loops) ==
  LET l == Last(loops)
  IN IF l.it = "html"
       THEN LET r == IterNext(l.st)
            IN [loops |-> [loops EXCEPT ![Len(loops)].st = r.stack], done |-> r.done,
                value |-> r.value]
       ELSE IF l.index >= Len(l.container.vals)
              THEN [loops |-> loops, done |-> TRUE, value |-> NoChunk]
              ELSE LET el == l.container.vals[l.index + 1]
                   IN [loops |-> [loops EXCEPT ![Len(loops)].index = l.index + 1],
                       done |-> FALSE,
                       value |-> IF el.k = "string" THEN StringChunk(el.s, el)
                                 ELSE PendingChunk(el)]

\* `const v = await chunk` has produced v: a string is written, anything
\* else is given to writeResult, whose for-of throws when v is not iterable.
WAwaited(loops, v) ==
  IF v.k = "string"
    THEN /\ written' = Append(written, Piece(v.s, v))
         /\ wStack' = loops
         /\ wStatus' = "running"
  ELSE IF v.k = "html"
    THEN /\ wStack' = PushLoop(loops, WLoop("html", NewIterator(v), 0, v))
         /\ wStatus' = "running"
         /\ written' = written
  ELSE IF v.k \in {"array", "iterable"}
    THEN /\ wStack' = PushLoop(loops, WLoop("raw", <<>>, 0, v))
         /\ wStatus' = "running"
         /\ written' = written
  ELSE /\ wStack' = loops
       /\ wStatus' = "failed"
       /\ written' = written

\* respond() is called with the template as body
RespondStart ==
  /\ consumer = "respond"
  /\ wStatus = "idle"
  /\ wStatus' = "running"
  /\ wStack' = <<WLoop("html", NewIterator(root), 0, root)>>
  /\ UNCHANGED <<root, consumer, itStack, chunks, itDone, strOut, written, resolved,
                 wAwait, pFlush, pipe, sink>>

\* One round of the for-of loop of the innermost writeResult.
WriteStep ==
  /\ wStatus = "running"
  /\ wStack # <<>>
  /\ LET r == WNextChunk(wStack)
     IN IF r.done
          THEN \* writeResult returns; the outermost one is followed by res.end()
               /\ wStack' = Front(wStack)
               /\ wStatus' = IF Len(wStack) = 1 THEN "ended" ELSE "running"
               /\ UNCHANGED <<written, wAwait>>
        ELSE IF ~r.value.pending
          THEN /\ written' = Append(written, Piece(r.value.text, r.value.src))
               /\ wStack' = r.loops
               /\ UNCHANGED <<wStatus, wAwait>>
        ELSE IF r.value.src.k = "promise"
          THEN /\ wStack' = r.loops
               /\ wStatus' = "awaiting"
               /\ wAwait' = r.value.src
               /\ UNCHANGED written
        ELSE \* awaiting a value that is no promise yields the value
             /\ WAwaited(r.loops, r.value.src)
             /\ UNCHANGED wAwait
  /\ UNCHANGED <<root, consumer, itStack, chunks, itDone, strOut, resolved, pFlush, pipe, sink>>

\* The awaited pending value has resolved.
WriteResume ==
  /\ wStatus = "awaiting"
  /\ wAwait.s[1] \in resolved
  /\ LET v == wAwait.vals[1]
     IN IF v.k = "promise"
          THEN /\ wAwait' = v
               /\ UNCHANGED <<wStack, wStatus, written>>
          ELSE /\ WAwaited(wStack, v)
               /\ UNCHANGED wAwait
  /\ UNCHANGED <<root, consumer, itStack, chunks, itDone, strOut, resolved, pFlush, pipe, sink>>

\* ------------------------------------------------------------------------
\* pipeToWritable
\* ------------------------------------------------------------------------
MaxFlush == 2

\* The Writable.  cork() and uncork() count; while corked, written data is
\* held back; write() returns false once the sink is full, until it drains.
\* ends counts the calls of end() and destroy(); failed: the sink has
\* emitted 'error'; late counts the calls of write() after that.
NewSink ==
  [corked |-> 0, held |-> <<>>, out |-> <<>>, full |-> FALSE, ends |-> 0,
   failed |-> FALSE, late |-> 0]

cork(sk) == [sk EXCEPT !.corked = @ + 1]

uncork(sk) ==
  IF sk.corked = 0 THEN sk
  ELSE IF sk.corked = 1 THEN [sk EXCEPT !.corked = 0, !.out = @ \o sk.held, !.held = <<>>]
  ELSE [sk EXCEPT !.corked = @ - 1]

\* writable.write(chunk); bp: this write fills the sink.  A sink that has
\* failed takes nothing and answers false.
write(sk, piece, bp) ==
  IF sk.failed THEN [sk EXCEPT !.late = @ + 1, !.full = TRUE]
  ELSE IF sk.corked > 0
    THEN [sk EXCEPT !.held = Append(@, piece), !.full = @ \/ bp]
    ELSE [sk EXCEPT !.out = Append(@, piece), !.full = @ \/ bp]

\* Buffer.byteLength(text, 'utf-8'), for one-byte characters
byteLength(text) == Len(text)

NewPipe ==
  [status |-> "idle", stack |-> <<>>, writeSize |-> 0, value |-> Null, uncork |-> FALSE]

\* what pipeToWritable writes for a string, an unsafe value and any other value
PipeString(v) == escape(v.s)
PipeUnsafeMutant(v) == escape(v.s)
PipeUnsafe(v) == v.s
PipeOther(v) == escape(StringOf(v))

flushBeforeAwaitMutant(flushSize, writeSize) == FALSE
\* `if (flushSize !== 0 && writeSize > 0)` before `value = await value`
flushBeforeAwait(flushSize, writeSize) == flushSize # 0 /\ writeSize > 0

finishMutant(sk, flushSize) == [sk EXCEPT !.ends = @ + 1]
\* after the loop: `if (flushSize !== 0) writable.uncork()`, and nothing else
finish(sk, flushSize) == IF flushSize # 0 THEN uncork(sk) ELSE sk

\* `if (continueWriting === false)`: uncork if needed and wait for drain
PipeAfterWrite(p, sk, ok) ==
  IF ok THEN [pipe |-> p, sink |-> sk]
  ELSE LET unc == pFlush # 0 /\ p.writeSize > 0
       IN [pipe |-> [p EXCEPT !.status = "awaitDrain", !.uncork = unc,
                              !.writeSize = IF unc THEN 0 ELSE @],
           sink |-> IF unc THEN uncork(sk) ELSE sk]

\* One round of `while (value != null)` for the value v, up to its break or
\* its await.
PipeValue(p, sk, v, bp) ==
  CASE v.k = "null" -> [pipe |-> p, sink |-> sk]
    [] v.k \in {"string", "unsafe", "other"} ->
         LET text == IF v.k = "string" THEN PipeString(v)
                     ELSE IF v.k = "unsafe" THEN PipeUnsafe(v) ELSE PipeOther(v)
             sk1 == write(sk, Piece(text, v), bp)
         IN PipeAfterWrite([p EXCEPT !.writeSize = @ + byteLength(text)], sk1, ~sk1.full)
    [] v.k \in {"html", "array", "iterable"} ->
         [pipe |-> [p EXCEPT !.stack = Append(@, Frame(v.k, 0, v))], sink |-> sk]
    [] v.k = "promise" ->
         \* always flush before awaiting
         LET flush == flushBeforeAwait(pFlush, p.writeSize)
         IN [pipe |-> [p EXCEPT !.status = "awaitPromise", !.value = v,
                                !.writeSize = IF flush THEN 0 ELSE @],
             sink |-> IF flush THEN cork(uncork(sk)) ELSE sk]
    [] v.k = "rejected" ->
         \* `await value` throws: pipeToWritable rejects where it stands
         [pipe |-> [p EXCEPT !.status = "failed"], sink |-> sk]

\* pipeToWritable(partial, writable, {flushSize}) up to its loop
PipeStart ==
  /\ consumer = "pipe"
  /\ pipe.status = "idle"
  /\ pipe' = [pipe EXCEPT !.status = "running", !.stack = NewIterator(root)]
  /\ sink' = IF pFlush # 0 THEN cork(sink) ELSE sink
  /\ UNCHANGED <<root, consumer, itStack, chunks, itDone, strOut, wStack, written,
                 resolved, wStatus, wAwait, pFlush>>

\* One round of `while (stack.length > 0)`.
PipeStep ==
  /\ pipe.status = "running"
  /\ pipe.stack # <<>>
  /\ \E bp \in BOOLEAN :
       LET over == pipe.writeSize > pFlush
           sk0 == IF over THEN cork(uncork(sink)) ELSE sink
           p0 == IF over THEN [pipe EXCEPT !.writeSize = 0] ELSE pipe
           state == Last(p0.stack)
           index == state.index
           container == state.container
           isHtml == state.kind = "html"
           i == index \div 2
           p1 == [p0 EXCEPT !.stack[Len(p0.stack)].index = index + 1]
           done == IF isHtml THEN HtmlDone(index, container) ELSE ArrayDone(index, container)
           value == IF isHtml THEN ValueAt(container.vals, i) ELSE ValueAt(container.vals, index)
           r == IF isHtml /\ index % 2 = 0
                  THEN \* a literal: the result of write() is not looked at
                       LET text == StringAt(container.strs, i)
                       IN [pipe |-> [p1 EXCEPT !.writeSize = @ + byteLength(text)],
                           sink |-> write(sk0, Piece(text, Literal(text)), bp)]
                ELSE IF done THEN [pipe |-> [p1 EXCEPT !.stack = Front(@)], sink |-> sk0]
                ELSE PipeValue(p1, sk0, value, bp)
       IN pipe' = r.pipe /\ sink' = r.sink
  /\ UNCHANGED <<root, consumer, itStack, chunks, itDone, strOut, wStack, written,
                 resolved, wStatus, wAwait, pFlush>>

\* `value = await value` goes on once the pending value has resolved.
PipeResume ==
  /\ pipe.status = "awaitPromise"
  /\ pipe.value.s[1] \in resolved
  /\ \E bp \in BOOLEAN :
       LET r == PipeValue([pipe EXCEPT !.status = "running", !.value = Null], sink,
                          pipe.value.vals[1], bp)
       IN pipe' = r.pipe /\ sink' = r.sink
  /\ UNCHANGED <<root, consumer, itStack, chunks, itDone, strOut, wStack, written,
                 resolved, wStatus, wAwait, pFlush>>

\* The sink has passed on everything it had and emits 'drain'.
SinkDrain ==
  /\ sink.full
  /\ ~sink.failed
  /\ sink.held = <<>>
  /\ sink' = IF pipe.status = "awaitDrain" /\ pipe.uncork
               THEN cork([sink EXCEPT !.full = FALSE])
               ELSE [sink EXCEPT !.full = FALSE]
  /\ pipe' = IF pipe.status = "awaitDrain"
               THEN [pipe EXCEPT !.status = "running", !.uncork = FALSE]
               ELSE pipe
  /\ UNCHANGED <<root, consumer, itStack, chunks, itDone, strOut, wStack, written,
                 resolved, wStatus, wAwait, pFlush>>

\* The sink emits 'error' while the writer waits for 'drain': the promise
\* the writer awaits rejects, and so does pipeToWritable.
SinkError ==
  /\ pipe.status = "awaitDrain"
  /\ ~sink.failed
  /\ pipe' = [pipe EXCEPT !.status = "failed"]
  /\ sink' = [sink EXCEPT !.failed = TRUE]
  /\ UNCHANGED <<root, consumer, itStack, chunks, itDone, strOut, wStack, written,
                 resolved, wStatus, wAwait, pFlush>>

\* The sink emits 'error' while the writer is suspended on a pending value:
\* pipeToWritable has no listener for it then.
SinkFail ==
  /\ pipe.status = "awaitPromise"
  /\ ~sink.failed
  /\ sink' = [sink EXCEPT !.failed = TRUE]
  /\ UNCHANGED <<root, consumer, itStack, chunks, itDone, strOut, wStack, written,
                 resolved, wStatus, wAwait, pFlush, pipe>>

\* The loop is over: `if (flushSize !== 0) writable.uncork()`.
PipeFinish ==
  /\ pipe.status = "running"
  /\ pipe.stack = <<>>
  /\ pipe' = [pipe EXCEPT !.status = "done"]
  /\ sink' = finish(sink, pFlush)
  /\ UNCHANGED <<root, consumer, itStack, chunks, itDone, strOut, wStack, written,
                 resolved, wStatus, wAwait, pFlush>>

\* ------------------------------------------------------------------------
\* waitForResult: the strings of a render result, every pending value
\* awaited and expanded in place
\* ------------------------------------------------------------------------
RECURSIVE waitForIterator(_), waitForAwaited(_)
waitForAwaited(v) ==
  CASE v.k = "promise" -> waitForAwaited(v.vals[1])
    [] v.k = "string" -> <<v.s>>
    [] v.k = "html" -> waitForIterator(NewIterator(v))
    [] v.k \in {"array", "iterable"} ->
         Concat([i \in 1..Len(v.vals) |->
                   IF v.vals[i].k = "string" THEN <<v.vals[i].s>>
                   ELSE waitForAwaited(v.vals[i])])
    [] OTHER -> <<>>

waitForIterator(st) ==
  LET r == IterNext(st)
  IN IF r.done THEN <<>>
     ELSE (IF r.value.pending THEN waitForAwaited(r.value.src) ELSE <<r.value.text>>)
          \o waitForIterator(r.stack)

waitForResult(partial) == waitForIterator(NewIterator(partial))

\* ------------------------------------------------------------------------
\* mount, in the chain [A, mount(prefix, B), C]
\* ------------------------------------------------------------------------
\* A reads req.path, awaits next() and reads req.path again; B does the
\* same, or returns after its first read (kindB = "stop"); C reads req.path
\* and returns.
KindsB == {"await", "stop"}

\* With faults: B may throw after its first read, C may throw after its
\* read; neither B nor mount catches, A does and reads req.path.
FaultKindsB == KindsB \cup {"throw"}
KindsC == {"return", "throw"}

\* the paths a request can have, and the prefixes given to mount
ReqPaths == {p \in Paths : p # <<>> /\ p[1] = "/"}

\* `req.path = originalPath` in the continue handed to the mounted middleware
ContinuePathMutant(orig, sub) == sub
ContinuePath(orig, sub) == orig

\* `req.path = subpath` after the outer continue has returned
BackPathMutant(orig, sub) == orig
BackPath(orig, sub) == sub

ReadPath(who, ph) == reads' = Append(reads, [who |-> who, ph |-> ph, path |-> reqPath])

MountIdle ==
  /\ reqPath = inPath
  /\ originalPath = <<>>
  /\ subpath = Unset
  /\ mountPc = "idle"
  /\ reads = <<>>

\* The composed chain is invoked for the request.
MountInvoke ==
  /\ mountPc = "idle"
  /\ mountPc' = "A1"
  /\ UNCHANGED <<mountPrefix, kindB, kindC, inPath, reqPath, originalPath, subpath, reads>>

\* A reads req.path and awaits next().
ReadA1 ==
  /\ mountPc = "A1"
  /\ ReadPath("A", "pre")
  /\ mountPc' = "mount"
  /\ UNCHANGED <<mountPrefix, kindB, kindC, inPath, reqPath, originalPath, subpath>>

\* The middleware returned by mount is entered: on a match req.path becomes
\* the subpath and the mounted middleware is called, else next() is.
MountEnter ==
  /\ mountPc = "mount"
  /\ originalPath' = reqPath
  /\ subpath' = matchPath(mountPrefix, reqPath)
  /\ IF subpath'.ok
       THEN reqPath' = subpath'.v /\ mountPc' = "B1"
       ELSE reqPath' = reqPath /\ mountPc' = "C"
  /\ UNCHANGED <<mountPrefix, kindB, kindC, inPath, reads>>

\* B reads req.path, then awaits its continue or returns.
ReadB1 ==
  /\ mountPc = "B1"
  /\ ReadPath("B", "pre")
  /\ mountPc' = IF kindB = "await" THEN "continue"
                ELSE IF kindB = "throw" THEN "raise" ELSE "exit"
  /\ UNCHANGED <<mountPrefix, kindB, kindC, inPath, reqPath, originalPath, subpath>>

\* The continue handed to B: `req.path = originalPath; await next()`.
MountContinue ==
  /\ mountPc = "continue"
  /\ reqPath' = ContinuePath(originalPath, subpath.v)
  /\ mountPc' = "C"
  /\ UNCHANGED <<mountPrefix, kindB, kindC, inPath, originalPath, subpath, reads>>

\* C reads req.path and returns: the outer continue resolves; or C throws.
ReadC ==
  /\ mountPc = "C"
  /\ ReadPath("C", "pre")
  /\ mountPc' = IF kindC = "throw" THEN "raise"
                ELSE IF subpath.ok THEN "back" ELSE "A2"
  /\ UNCHANGED <<mountPrefix, kindB, kindC, inPath, reqPath, originalPath, subpath>>

\* The continue handed to B goes on: `req.path = subpath`, and resolves.
MountBack ==
  /\ mountPc = "back"
  /\ reqPath' = BackPath(originalPath, subpath.v)
  /\ mountPc' = "B2"
  /\ UNCHANGED <<mountPrefix, kindB, kindC, inPath, originalPath, subpath, reads>>

\* B reads req.path after its continue and returns.
ReadB2 ==
  /\ mountPc = "B2"
  /\ ReadPath("B", "post")
  /\ mountPc' = "exit"
  /\ UNCHANGED <<mountPrefix, kindB, kindC, inPath, reqPath, originalPath, subpath>>

\* The mounted middleware has returned: `req.path = originalPath`.
MountExit ==
  /\ mountPc = "exit"
  /\ reqPath' = originalPath
  /\ mountPc' = "A2"
  /\ UNCHANGED <<mountPrefix, kindB, kindC, inPath, originalPath, subpath, reads>>

\* An error thrown by B or by C passes through every await between it and
\* A: the continue's `req.path = subpath` and mount's
\* `req.path = originalPath` are skipped, and there is no catch or finally.
MountReject ==
  /\ mountPc = "raise"
  /\ mountPc' = "caught"
  /\ UNCHANGED <<mountPrefix, kindB, kindC, inPath, reqPath, originalPath, subpath, reads>>

\* A catches the error of its continue and reads req.path.
CatchA ==
  /\ mountPc = "caught"
  /\ ReadPath("A", "catch")
  /\ mountPc' = "done"
  /\ UNCHANGED <<mountPrefix, kindB, kindC, inPath, reqPath, originalPath, subpath>>

\* A reads req.path after its continue and returns.
ReadA2 ==
  /\ mountPc = "A2"
  /\ ReadPath("A", "post")
  /\ mountPc' = "done"
  /\ UNCHANGED <<mountPrefix, kindB, kindC, inPath, reqPath, originalPath, subpath>>

\* ------------------------------------------------------------------------
\* ServerResponse (node:http), as far as App and Response use it
\* ------------------------------------------------------------------------
\* statusCode is a plain property; the status line and the headers go out
\* with the first write() or end() (sentStatus, 0 before that); setHeader
\* throws ERR_HTTP_HEADERS_SENT once they are out; a second end() does
\* nothing.  late collects the assignments of the status code and the
\* setHeader calls made after the headers were sent.
NewServerResponse ==
  [statusCode |-> 200, headersSent |-> FALSE, sentStatus |-> 0, ctype |-> "none",
   clen |-> -1, tenc |-> "none", out |-> <<>>, endCalls |-> 0, finished |-> FALSE,
   late |-> {}, statusMessage |-> "none", location |-> "none"]

\* res.statusCode = v
setStatusCode(r, v) ==
  [r EXCEPT !.statusCode = v,
            !.late = IF r.headersSent THEN @ \cup {"statusCode"} ELSE @]

\* STATUS_CODES[value] of node:http, for the codes used here
STATUS_CODES(code) ==
  CASE code = 200 -> "OK"
    [] code = 203 -> "Non-Authoritative Information"
    [] code = 301 -> "Moved Permanently"
    [] code = 302 -> "Found"
    [] code = 403 -> "Forbidden"
    [] code = 404 -> "Not Found"
    [] code = 500 -> "Internal Server Error"
    [] OTHER -> "none"

\* the headers go out if they have not yet
implicitHeader(r) ==
  IF r.headersSent THEN r
  ELSE [r EXCEPT !.headersSent = TRUE, !.sentStatus = r.statusCode]

\* res.write(chunk)
resWrite(r, chunk) ==
  IF r.finished THEN r ELSE [implicitHeader(r) EXCEPT !.out = Append(@, chunk)]

\* res.end(data): data is empty for end() and end(undefined)
resEnd(r, data) ==
  IF r.finished THEN [r EXCEPT !.endCalls = @ + 1]
  ELSE [implicitHeader(r) EXCEPT !.out = @ \o data, !.endCalls = @ + 1,
                                 !.finished = TRUE]

\* res.setHeader('Content-Type', v) / res.setHeader('Content-Length', n) /
\* res.setHeader('Transfer-Encoding', v): [ok, res]; "none" and -1 stand
\* for a header that is not set
setContentType(r, v) ==
  IF r.headersSent THEN [ok |-> FALSE, res |-> [r EXCEPT !.late = @ \cup {"setHeader"}]]
  ELSE [ok |-> TRUE, res |-> [r EXCEPT !.ctype = v]]

setContentLength(r, n) ==
  IF r.headersSent THEN [ok |-> FALSE, res |-> [r EXCEPT !.late = @ \cup {"setHeader"}]]
  ELSE [ok |-> TRUE, res |-> [r EXCEPT !.clen = n]]

setTransferEncoding(r, v) ==
  IF r.headersSent THEN [ok |-> FALSE, res |-> [r EXCEPT !.late = @ \cup {"setHeader"}]]
  ELSE [ok |-> TRUE, res |-> [r EXCEPT !.tenc = v]]

setLocation(r, v) ==
  IF r.headersSent THEN [ok |-> FALSE, res |-> [r EXCEPT !.late = @ \cup {"setHeader"}]]
  ELSE [ok |-> TRUE, res |-> [r EXCEPT !.location = v]]

\* ------------------------------------------------------------------------
\* Errors
\* ------------------------------------------------------------------------
\* cls: "HttpError", "Error" (any other Error) or "value" (a thrown value
\* that is no Error); "none" stands for undefined.
ErrorOf(cls, st, message, privateMessage, stk) ==
  [cls |-> cls, status |-> st, message |-> message, privateMessage |-> privateMessage,
   stack |-> stk]

NoError == ErrorOf("none", 0, "none", "none", "none")

HttpErrors ==
  {ErrorOf("HttpError", st, "Public", pm, stk) :
     st \in {403, 500}, pm \in {"none", "Private 1", "Private 2"},
     stk \in {"at f", "at g"}}

PlainErrors ==
  {ErrorOf("Error", 0, m, "none", stk) : m \in {"Oops 1", "Oops 2"}, stk \in {"at f", "at g"}}
  \cup {ErrorOf("value", 0, "none", "none", "none")}

Errors == HttpErrors \cup PlainErrors

\* what setHeader throws after the headers were sent
HeadersSentError == ErrorOf("Error", 0, "ERR_HTTP_HEADERS_SENT", "none", "at setHeader")

\* what a pending value of a template body rejects with
RejectReason == ErrorOf("Error", 0, "rejected", "none", "at h")

\* ------------------------------------------------------------------------
\* Response
\* ------------------------------------------------------------------------
\* Bodies: undefined, a string, a Buffer, a Uint8Array that is no Buffer, or
\* an HTMLPartial given as the chunks its iteration yields, the last of
\* which may be a pending value that rejects.
BodyOf(k, parts, bytes, rejects) ==
  [k |-> k, chunks |-> parts, bytes |-> bytes, rejects |-> rejects]
NoBody == BodyOf("undefined", <<>>, 0, FALSE)

Bodies ==
  { BodyOf("string", <<"Hello">>, 5, FALSE),
    BodyOf("buffer", <<"bytes">>, 5, FALSE),
    BodyOf("uint8array", <<"octets">>, 6, FALSE),
    BodyOf("html", <<"<h1>", "</h1>">>, 9, FALSE),
    BodyOf("html", <<"<h1>">>, 4, TRUE) }

NewResponseMutant == [statusCodeSet |-> TRUE, body |-> NoBody]
\* the constructor, after `this.statusCode = 404`: `#statusCodeSet = false`
NewResponse == [statusCodeSet |-> FALSE, body |-> NoBody]

\* Response set statusCode: the code goes to the ServerResponse, and the
\* status message is filled in only while it is undefined
statusCodeSetter(r, v) ==
  [setStatusCode(r, v) EXCEPT
     !.statusMessage = IF @ = "none" /\ STATUS_CODES(v) # "none" THEN STATUS_CODES(v) ELSE @]

BodyStatusMutant(statusCodeSet, current) == 200
\* set body: `if (!this.#statusCodeSet) this.statusCode = 200`
BodyStatus(statusCodeSet, current) == IF ~statusCodeSet THEN 200 ELSE current

bodyLengthMutant(b) == Len(b.chunks)
\* Buffer.byteLength(value) / value.length
bodyLength(b) == b.bytes

setLengthMutant(r, n) == setContentLength(r, n)
\* set length: `if (!this.hasHeader('Transfer-Encoding'))
\* this.setHeader('Content-Length', String(n))`: [ok, res]
setLength(r, n) ==
  IF r.tenc # "none" THEN [ok |-> TRUE, res |-> r] ELSE setContentLength(r, n)

getTypeMutant(b) == "application/octet-stream"
\* getType('text'), getType('html'), getType('bin') of cache-content-type
getType(b) ==
  CASE b.k = "string" -> "text/plain; charset=utf-8"
    [] b.k = "html" -> "text/html; charset=utf-8"
    [] OTHER -> "application/octet-stream"

\* Response.respond(): [res, ok, e]
respond(rp, r) ==
  LET b == rp.body
      typed == IF r.ctype # "none" THEN [ok |-> TRUE, res |-> r]
               ELSE setContentType(r, getType(b))
      sized == setLength(typed.res, bodyLength(b))
      \* writeResult writes the chunks one after the other
      written0[i \in 0..Len(b.chunks)] ==
        IF i = 0 THEN typed.res ELSE resWrite(written0[i - 1], <<b.chunks[i]>>)
  IN CASE b.k = "undefined" -> [res |-> resEnd(r, <<>>), ok |-> TRUE, e |-> NoError]
       [] b.k \in {"string", "buffer"} ->
            IF ~typed.ok THEN [res |-> typed.res, ok |-> FALSE, e |-> HeadersSentError]
            ELSE IF ~sized.ok THEN [res |-> sized.res, ok |-> FALSE, e |-> HeadersSentError]
            ELSE [res |-> resEnd(sized.res, <<b.chunks>>), ok |-> TRUE, e |-> NoError]
       [] b.k = "html" ->
            IF ~typed.ok THEN [res |-> typed.res, ok |-> FALSE, e |-> HeadersSentError]
            ELSE IF b.rejects
              THEN [res |-> written0[Len(b.chunks)], ok |-> FALSE, e |-> RejectReason]
            ELSE [res |-> resEnd(written0[Len(b.chunks)], <<>>), ok |-> TRUE, e |-> NoError]
       [] b.k = "uint8array" ->
            \* Buffer.isBuffer(value) is false: the last line, `this.#res.end(value)`
            [res |-> resEnd(r, <<b.chunks>>), ok |-> TRUE, e |-> NoError]

\* ------------------------------------------------------------------------
\* App.#callback
\* ------------------------------------------------------------------------
MaxOps == 3

RevealMutant(devMode) == TRUE
\* `if (this.#devMode)`: private message, stack and plain message go out
Reveal(devMode) == devMode

FaultStatusMutant(e) == 500
\* the status the catch block assigns
FaultStatus(e) == IF e.cls = "HttpError" THEN e.status ELSE 500

\* The catch block of #callback for the error e: [ok, res]; ok is false when
\* the block itself throws.
CatchBlock(devMode, e, r) ==
  LET r1 == setStatusCode(r, FaultStatus(e))
  IN IF e.cls = "HttpError"
       THEN LET r2 == resWrite(r1, <<e.message>>)
                r3 == IF Reveal(devMode) /\ e.privateMessage # "none"
                        THEN resWrite(r2, <<"\n", e.privateMessage>>) ELSE r2
                r4 == IF Reveal(devMode) /\ e.stack # "none"
                        THEN resWrite(r3, <<"\n", e.stack>>) ELSE r3
            IN [ok |-> TRUE, res |-> r4]
     ELSE IF Reveal(devMode) /\ e.cls = "Error"
       THEN LET h == setContentType(r1, "text/plain; charset=utf-8")
            IN IF ~h.ok THEN h
               ELSE [ok |-> TRUE,
                     res |-> resWrite(h.res, <<"Internal Server Error\n\n", e.message,
                                               "\n\n", e.stack>>)]
     ELSE [ok |-> TRUE, res |-> r1]

NoHist ==
  [explicit |-> FALSE, last |-> 0, bodySet |-> FALSE, wrote |-> FALSE, redirects |-> 0,
   target |-> "none", referer |-> "none"]

AppIdle ==
  /\ cbPc = "idle"
  /\ resp = NewResponse
  /\ res = NewServerResponse
  /\ thrown = NoError
  /\ ops = 0
  /\ hist = NoHist
  /\ atFault = NewServerResponse

\* A request arrives: `new Response(res, request)` (statusCode = 404, not
\* set by middleware), then the composed middleware is called.
Receive ==
  /\ cbPc = "idle"
  /\ cbPc' = "middleware"
  /\ resp' = NewResponse
  /\ res' = statusCodeSetter(res, 404)
  /\ UNCHANGED <<dev, thrown, ops, hist, atFault>>

\* A middleware assigns res.statusCode.
MwSetStatus ==
  /\ cbPc = "middleware" /\ ops < MaxOps
  /\ \E code \in {203, 301, 500} :
       /\ res' = statusCodeSetter(res, code)
       /\ resp' = [resp EXCEPT !.statusCodeSet = TRUE]
       /\ hist' = [hist EXCEPT !.explicit = TRUE, !.last = code]
  /\ ops' = ops + 1
  /\ UNCHANGED <<dev, cbPc, thrown, atFault>>

\* A middleware assigns res.body.
MwSetBody ==
  /\ cbPc = "middleware" /\ ops < MaxOps
  /\ \E b \in Bodies :
       /\ res' = IF BodyStatus(resp.statusCodeSet, res.statusCode) = res.statusCode
                   THEN res
                   ELSE statusCodeSetter(res, BodyStatus(resp.statusCodeSet, res.statusCode))
       /\ resp' = [statusCodeSet |-> TRUE, body |-> b]
  /\ hist' = [hist EXCEPT !.bodySet = TRUE]
  /\ ops' = ops + 1
  /\ UNCHANGED <<dev, cbPc, thrown, atFault>>

\* A middleware calls res.write.
MwWrite ==
  /\ cbPc = "middleware" /\ ops < MaxOps
  /\ res' = resWrite(res, <<"A1">>)
  /\ hist' = [hist EXCEPT !.wrote = TRUE]
  /\ ops' = ops + 1
  /\ UNCHANGED <<dev, cbPc, resp, thrown, atFault>>

\* A middleware calls a setter of a header: Response.setHeader and the type
\* setter pass the call on to res.setHeader, which throws once the headers
\* are out (the middleware does not catch it); the length setter looks for
\* a Transfer-Encoding header first.
MwSetHeader ==
  /\ cbPc = "middleware" /\ ops < MaxOps
  /\ \E h \in {setContentType(res, "application/json; charset=utf-8"),
                setTransferEncoding(res, "chunked"),
                setLength(res, 7)} :
       /\ res' = h.res
       /\ cbPc' = IF h.ok THEN cbPc ELSE "catch"
       /\ thrown' = IF h.ok THEN thrown ELSE HeadersSentError
       /\ atFault' = IF h.ok THEN atFault ELSE h.res
  /\ ops' = ops + 1
  /\ UNCHANGED <<dev, resp, hist>>

\* The targets of redirect: a path, a URL relative to the request's, and
\* Response.BACK; Referers: the request's Referer header, "none" if absent.
Targets == {"/redirected", "./next", "BACK"}
Referers == {"none", "/from"}

\* `new URL(url, this.#req.url)` for './next', the request being for
\* http://a.example/dir/page
resolveURL(url) == "http://a.example/dir/next"

\* the fallback body redirect assigns
RedirectBody(url, acceptsHtml) ==
  IF acceptsHtml
    THEN BodyOf("string", <<"Redirecting to <a href=\"", url, "\">", url, "</a>.">>, 40, FALSE)
    ELSE BodyOf("string", <<"Redirecting to ", url, ".">>, 20, FALSE)

redirectStatusMutant(code) == 302
\* `if (!(statusCode >= 300 && statusCode < 400)) this.statusCode = 302`
redirectStatus(code) == IF code >= 300 /\ code < 400 THEN code ELSE 302

\* Response.redirect(url, alt = '/'): [ok, res, resp]
redirect(rp, r, target, referer, acceptsHtml) ==
  LET u1 == IF target = "BACK" THEN (IF referer # "none" THEN referer ELSE "/") ELSE target
      url == IF u1 = "./next" THEN resolveURL(u1) ELSE u1
      loc == setLocation(r, url)
      is3xx == redirectStatus(loc.res.statusCode) = loc.res.statusCode
      r1 == IF is3xx THEN loc.res
            ELSE statusCodeSetter(loc.res, redirectStatus(loc.res.statusCode))
      set1 == rp.statusCodeSet \/ ~is3xx
      typed == setContentType(r1, IF acceptsHtml THEN "text/html; charset=utf-8"
                                  ELSE "text/plain; charset=utf-8")
      r2 == IF set1 THEN typed.res
            ELSE statusCodeSetter(typed.res, BodyStatus(set1, typed.res.statusCode))
  IN IF ~loc.ok THEN [ok |-> FALSE, res |-> loc.res, resp |-> rp]
     ELSE [ok |-> TRUE, res |-> r2,
           resp |-> [statusCodeSet |-> TRUE, body |-> RedirectBody(url, acceptsHtml)]]

\* A middleware calls res.redirect.
MwRedirect ==
  /\ cbPc = "middleware" /\ ops < MaxOps
  /\ \E target \in Targets, referer \in Referers, acceptsHtml \in BOOLEAN :
       LET d == redirect(resp, res, target, referer, acceptsHtml)
       IN /\ res' = d.res
          /\ resp' = d.resp
          /\ cbPc' = IF d.ok THEN cbPc ELSE "catch"
          /\ thrown' = IF d.ok THEN thrown ELSE HeadersSentError
          /\ atFault' = IF d.ok THEN atFault ELSE d.res
          /\ hist' = IF d.ok
                       THEN [hist EXCEPT !.redirects = @ + 1, !.target = target,
                                         !.referer = referer, !.bodySet = TRUE,
                                         !.explicit = @ \/ res'.statusCode # res.statusCode,
                                         !.last = IF res'.statusCode # res.statusCode
                                                    THEN res'.statusCode ELSE @]
                       ELSE hist
  /\ ops' = ops + 1
  /\ UNCHANGED dev

\* A middleware throws: the composed promise rejects and the try block is
\* left.
MwThrow ==
  /\ cbPc = "middleware"
  /\ \E e \in Errors : thrown' = e
  /\ cbPc' = "catch"
  /\ atFault' = res
  /\ UNCHANGED <<dev, resp, res, ops, hist>>

\* The chain resolves: `await response.respond()` is next.
MwReturn ==
  /\ cbPc = "middleware"
  /\ cbPc' = "respond"
  /\ UNCHANGED <<dev, resp, res, thrown, ops, hist, atFault>>

\* `await response.respond()`
Respond ==
  /\ cbPc = "respond"
  /\ LET r == respond(resp, res)
     IN /\ res' = r.res
        /\ thrown' = r.e
        /\ cbPc' = IF r.ok THEN "finish" ELSE "catch"
        /\ atFault' = IF r.ok THEN atFault ELSE r.res
  /\ UNCHANGED <<dev, resp, ops, hist>>

\* The catch block runs; an error it throws itself leaves the callback.
Catch ==
  /\ cbPc = "catch"
  /\ LET c == CatchBlock(dev, thrown, res)
     IN /\ res' = c.res
        /\ cbPc' = IF c.ok THEN "finish" ELSE "escaped"
  /\ UNCHANGED <<dev, resp, thrown, ops, hist, atFault>>

\* `response.baseResponse.end()` after the try statement
Finish ==
  /\ cbPc = "finish"
  /\ res' = resEnd(res, <<>>)
  /\ cbPc' = "done"
  /\ UNCHANGED <<dev, resp, thrown, ops, hist, atFault>>

\* ------------------------------------------------------------------------
\* Rendering the same template more than once
\* ------------------------------------------------------------------------
MaxRenders == 3

\* An iterable that can be iterated once only: a generator object, the
\* iterator of a Map or Set.  Its [Symbol.iterator]() returns the object
\* itself, so once Array.from or next() has run it to its end it yields
\* nothing more.
OneShot(id, vals) == Value("iterable", <<id>>, <<>>, vals)
IsOneShot(v) == v.k = "iterable" /\ v.s # <<>>

\* the values as a render finds them: spent one-shot iterables are empty
RECURSIVE Seen(_, _)
Seen(v, sp) ==
  IF IsOneShot(v) /\ v.s[1] \in sp THEN OneShot(v.s[1], <<>>)
  ELSE [v EXCEPT !.vals = [i \in 1..Len(v.vals) |-> Seen(v.vals[i], sp)]]

\* the one-shot iterables toString runs to their end (Array.from(v))
RECURSIVE toStringSpends(_)
toStringSpends(v) ==
  IF v.k \notin {"html", "array", "iterable"} THEN {}
  ELSE (IF IsOneShot(v) THEN {v.s[1]} ELSE {}) \cup
       UNION {toStringSpends(v.vals[i]) : i \in 1..Len(v.vals)}

\* the one-shot iterables a complete iteration runs to their end
\* (value[Symbol.iterator]() and container.next()): those among the values
\* the iterator gets to
RECURSIVE iterationSpends(_)
iterationSpends(v) ==
  CASE v.k = "html" ->
         UNION {iterationSpends(v.vals[i + 1]) :
                  i \in {j \in 0..(Len(v.vals) - 1) : ~HtmlDone(2 * j + 1, v)}}
    [] v.k \in {"array", "iterable"} ->
         (IF IsOneShot(v) THEN {v.s[1]} ELSE {}) \cup
         UNION {iterationSpends(v.vals[i]) : i \in 1..Len(v.vals)}
    [] OTHER -> {}

\* [...partial]: the chunks of one complete iteration, a pending value as
\* its identity
RECURSIVE spread(_)
spread(st) ==
  LET r == IterNext(st)
  IN IF r.done THEN <<>>
     ELSE <<IF r.value.pending THEN <<"promise">> \o r.value.src.s ELSE r.value.text>>
          \o spread(r.stack)

\* partial.toString()
RenderToString ==
  /\ consumer = "rerender"
  /\ Len(renders) < MaxRenders
  /\ renders' = Append(renders, [kind |-> "toString",
                                 out |-> <<partialToString(Seen(root, spent))>>,
                                 node |-> root])
  /\ spent' = spent \cup toStringSpends(Seen(root, spent))
  /\ UNCHANGED htmlVars

\* [...partial]: a fresh HTMLIterator, run until it is done
RenderIterate ==
  /\ consumer = "rerender"
  /\ Len(renders) < MaxRenders
  /\ renders' = Append(renders, [kind |-> "iterate",
                                 out |-> spread(NewIterator(Seen(root, spent))),
                                 node |-> root])
  /\ spent' = spent \cup iterationSpends(Seen(root, spent))
  /\ UNCHANGED htmlVars

\* ------------------------------------------------------------------------
\* Request: protocol, host, origin
\* ------------------------------------------------------------------------
\* A header is "none" when the request does not carry it (undefined); ""
\* is a header that is present and empty.
HostHeaders == {"none", "a.example"}
ForwardedProtos == {"none", "", "https", "ftp"}
ForwardedHosts == {"none", "evil.example"}

Requests ==
  [encrypted : BOOLEAN, trustProxy : BOOLEAN, host : HostHeaders,
   xfProto : ForwardedProtos, xfHost : ForwardedHosts]

\* `this.getHeader(name)` used as a condition
truthy(h) == h \notin {"none", ""}

trustProxyMutant(q) == TRUE
\* this.#trustProxy
trustProxy(q) == q.trustProxy

\* get protocol
protocol(q) ==
  IF q.encrypted THEN "https"
  ELSE IF trustProxy(q) /\ truthy(q.xfProto) THEN q.xfProto
  ELSE "http"

\* get host
host(q) == IF trustProxy(q) /\ truthy(q.xfHost) THEN q.xfHost ELSE q.host

\* get origin: undefined (<<>>), or `${this.protocol}://${this.host}`
origin(q) == IF host(q) = "none" THEN <<>> ELSE <<protocol(q), "://", host(q)>>

Getters(q) == [protocol |-> protocol(q), host |-> host(q), origin |-> origin(q)]

NoGetters == [done |-> FALSE, v |-> [protocol |-> "none", host |-> "none", origin |-> <<>>]]

\* a middleware reads request.protocol, request.host and request.origin
ReadRequest ==
  /\ ~rqOut.done
  /\ rqOut' = [done |-> TRUE, v |-> Getters(rq)]
  /\ UNCHANGED rq

\* ------------------------------------------------------------------------
\* URLPatternList
\* ------------------------------------------------------------------------
MaxItems == 3

\* URLPattern({pathname}) for three pathnames, and the paths matched
Patterns == {"/items/:id", "/items/special", "/books/:bookId"}
ListPaths == {"/items/123", "/items/special", "/books/1", "/none"}

NoGroups == [name |-> "none", value |-> "none"]

\* pattern.exec(path, baseUrl): null (found false), or the result with its
\* pathname groups
exec(pattern, path) ==
  CASE pattern = "/items/:id" /\ path = "/items/123" ->
         [found |-> TRUE, groups |-> [name |-> "id", value |-> "123"]]
    [] pattern = "/items/:id" /\ path = "/items/special" ->
         [found |-> TRUE, groups |-> [name |-> "id", value |-> "special"]]
    [] pattern = "/items/special" /\ path = "/items/special" ->
         [found |-> TRUE, groups |-> NoGroups]
    [] pattern = "/books/:bookId" /\ path = "/books/1" ->
         [found |-> TRUE, groups |-> [name |-> "bookId", value |-> "1"]]
    [] OTHER -> [found |-> FALSE, groups |-> NoGroups]

\* pattern.test(path, baseUrl)
test(pattern, path) == exec(pattern, path).found

NoListMatch == [found |-> FALSE, value |-> 0, groups |-> NoGroups]

scanOrderMutant(n, k) == n + 1 - k
\* `for (const item of this.#items)`: the k-th item looked at
scanOrder(n, k) == k

\* match(path, baseUrl), from the k-th round of its loop on
RECURSIVE matchFrom(_, _, _)
matchFrom(list, path, k) ==
  IF k > Len(list) THEN NoListMatch
  ELSE LET item == list[scanOrder(Len(list), k)]
       IN IF test(item.pattern, path) /\ exec(item.pattern, path).found
            THEN [found |-> TRUE, value |-> item.value,
                  groups |-> exec(item.pattern, path).groups]
            ELSE matchFrom(list, path, k + 1)

match(list, path) == matchFrom(list, path, 1)

NoCall == [done |-> FALSE, path |-> "none", n |-> 0, result |-> NoListMatch]

\* addPattern(pattern, value): the values are the numbers 1, 2, ...
AddPattern ==
  /\ Len(items) < MaxItems
  /\ \E pattern \in Patterns :
       items' = Append(items, [pattern |-> pattern, value |-> Len(items) + 1])
  /\ UNCHANGED lOut

\* match(path, 'http://example.com')
Match ==
  /\ \E path \in ListPaths :
       lOut' = [done |-> TRUE, path |-> path, n |-> Len(items), result |-> match(items, path)]
  /\ UNCHANGED items

\* ------------------------------------------------------------------------
\* Two invocations of one composed function, interleaved at their awaits
\* ------------------------------------------------------------------------
Invocations == {1, 2}

\* ran[j], asked[j]: how often this invocation has run the middleware of
\* closure j, and has called the continue that closure j is
NewRun ==
  [stack |-> <<>>, status |-> "idle", err |-> "none",
   ran |-> [j \in 1..Len(chain) |-> 0], asked |-> [j \in 1..Len(chain) |-> 0]]

FreshGuards == [j \in 1..Len(chain) |-> FALSE]

guardCellMutant(i) == 1
\* `let called = false` is inside the function compose returns: the flags
\* a call of that function tests are the ones that same call created
guardCell(i) == i

TopOf(i) == Last(runs[i].stack)
Running(i) == runs[i].status = "running" /\ runs[i].stack # <<>>
WithTop(i, f) == [runs[i].stack EXCEPT ![Len(runs[i].stack)] = f]

\* The composed middleware is invoked for a request.
Invoke2 ==
  \E i \in Invocations :
    /\ runs[i].status = "idle"
    /\ runs' = [runs EXCEPT ![i].status = "running",
                            ![i].stack = <<[cl |-> 0, pc |-> "call", calls |-> 0]>>]
    /\ guards' = [guards EXCEPT ![guardCell(i)] = FreshGuards]

\* A middleware writes its pre-token.
Pre2 ==
  \E i \in Invocations :
    /\ Running(i) /\ TopOf(i).pc = "pre"
    /\ runs' = [runs EXCEPT ![i].stack =
                  WithTop(i, [TopOf(i) EXCEPT
                                !.pc = IF KindOf(TopOf(i)) = "stop" THEN "ret" ELSE "call"])]
    /\ UNCHANGED guards

\* next() on the caller's terminal continue
CallTerminal2 ==
  \E i \in Invocations :
    /\ Running(i) /\ TopOf(i).pc = "call"
    /\ Target(TopOf(i)) = 0
    /\ runs' = [runs EXCEPT ![i].stack =
                  WithTop(i, [TopOf(i) EXCEPT !.calls = @ + 1,
                                              !.pc = AfterCall(TopOf(i), TopOf(i).calls + 1)])]
    /\ UNCHANGED guards

\* next() on a closure whose flag is clear
CallDownstream2 ==
  \E i \in Invocations :
    /\ Running(i) /\ TopOf(i).pc = "call"
    /\ Target(TopOf(i)) > 0
    /\ ~guards[guardCell(i)][Target(TopOf(i))]
    /\ guards' = [guards EXCEPT ![guardCell(i)][Target(TopOf(i))] = TRUE]
    /\ runs' = [runs EXCEPT
                  ![i].stack = Append(WithTop(i, [TopOf(i) EXCEPT !.pc = "wait"]),
                                      [cl |-> Target(TopOf(i)), pc |-> "pre", calls |-> 0]),
                  ![i].ran[Target(TopOf(i))] = @ + 1,
                  ![i].asked[Target(TopOf(i))] = @ + 1]

\* next() on a closure whose flag is set: it throws
CallGuardFault2 ==
  \E i \in Invocations :
    /\ Running(i) /\ TopOf(i).pc = "call"
    /\ Target(TopOf(i)) > 0
    /\ guards[guardCell(i)][Target(TopOf(i))]
    /\ runs' = [runs EXCEPT ![i].stack = WithTop(i, [TopOf(i) EXCEPT !.pc = "throw"]),
                            ![i].err = TooMany,
                            ![i].asked[Target(TopOf(i))] = @ + 1]
    /\ UNCHANGED guards

\* A middleware writes its post-token.
Post2 ==
  \E i \in Invocations :
    /\ Running(i) /\ TopOf(i).pc = "post"
    /\ runs' = [runs EXCEPT ![i].stack = WithTop(i, [TopOf(i) EXCEPT !.pc = "ret"])]
    /\ UNCHANGED guards

\* An async function returns.
Return2 ==
  \E i \in Invocations :
    /\ Running(i) /\ TopOf(i).pc = "ret"
    /\ runs' = IF Len(runs[i].stack) = 1
                 THEN [runs EXCEPT ![i].stack = <<>>, ![i].status = "resolved"]
                 ELSE LET st == runs[i].stack
                          caller == st[Len(st) - 1]
                          n == caller.calls + 1
                      IN [runs EXCEPT ![i].stack =
                            [Front(st) EXCEPT ![Len(st) - 1] =
                               [caller EXCEPT !.calls = n, !.pc = AfterCall(caller, n)]]]
    /\ UNCHANGED guards

\* An async function throws.
Propagate2 ==
  \E i \in Invocations :
    /\ Running(i) /\ TopOf(i).pc = "throw"
    /\ runs' = IF Len(runs[i].stack) = 1
                 THEN [runs EXCEPT ![i].stack = <<>>, ![i].status = "rejected"]
                 ELSE [runs EXCEPT ![i].stack =
                         [Front(runs[i].stack) EXCEPT ![Len(runs[i].stack) - 1].pc = "throw"]]
    /\ UNCHANGED guards

\* ------------------------------------------------------------------------
\* Placeholders for the parts a specification does not exercise
\* ------------------------------------------------------------------------
NoCompose ==
  /\ chain = <<>>
  /\ ComposeIdle

NoMatch == mPrefix = <<>> /\ mPath = <<>> /\ mResult = Unset

NoEscape == escIn = <<>> /\ escOut = Unset

HtmlIdle ==
  /\ chunks = <<>>
  /\ itDone = FALSE
  /\ strOut = Unset
  /\ wStack = <<>>
  /\ written = <<>>
  /\ resolved = {}
  /\ wStatus = "idle"
  /\ wAwait = Null
  /\ pipe = NewPipe
  /\ sink = NewSink

NoHtml ==
  /\ root = Html(<< <<>> >>, <<>>)
  /\ consumer = "none"
  /\ itStack = <<>>
  /\ pFlush = 0
  /\ HtmlIdle

NoMount ==
  /\ mountPrefix = <<>>
  /\ kindB = "await"
  /\ kindC = "return"
  /\ inPath = <<>>
  /\ MountIdle

NoApp ==
  /\ dev = FALSE
  /\ AppIdle

NoRender == spent = {} /\ renders = <<>>

NoRequest ==
  /\ rq = [encrypted |-> FALSE, trustProxy |-> FALSE, host |-> "none", xfProto |-> "none",
           xfHost |-> "none"]
  /\ rqOut = NoGetters

NoList == items = <<>> /\ lOut = NoCall

NoRuns == runs = <<>> /\ guards = <<>>

\* ------------------------------------------------------------------------
\* Specification of one invocation of a composed chain
\* ------------------------------------------------------------------------
InitCompose ==
  /\ chain \in Chains
  /\ ComposeIdle
  /\ NoMatch /\ NoEscape /\ NoHtml /\ NoMount /\ NoApp /\ NoRender
  /\ NoRequest /\ NoList /\ NoRuns

NextCompose ==
  \/ (Invoke /\ UNCHANGED <<matchVars, escVars, htmlVars, mountVars, appVars, renderVars, requestVars, listVars, runVars>>)
  \/ (Pre /\ UNCHANGED <<matchVars, escVars, htmlVars, mountVars, appVars, renderVars, requestVars, listVars, runVars>>)
  \/ (CallTerminal /\ UNCHANGED <<matchVars, escVars, htmlVars, mountVars, appVars, renderVars, requestVars, listVars, runVars>>)
  \/ (CallDownstream /\ UNCHANGED <<matchVars, escVars, htmlVars, mountVars, appVars, renderVars, requestVars, listVars, runVars>>)
  \/ (CallGuardFault /\ UNCHANGED <<matchVars, escVars, htmlVars, mountVars, appVars, renderVars, requestVars, listVars, runVars>>)
  \/ (Post /\ UNCHANGED <<matchVars, escVars, htmlVars, mountVars, appVars, renderVars, requestVars, listVars, runVars>>)
  \/ (Return /\ UNCHANGED <<matchVars, escVars, htmlVars, mountVars, appVars, renderVars, requestVars, listVars, runVars>>)
  \/ (Propagate /\ UNCHANGED <<matchVars, escVars, htmlVars, mountVars, appVars, renderVars, requestVars, listVars, runVars>>)

SpecCompose == InitCompose /\ [][NextCompose]_vars

\* ------------------------------------------------------------------------
\* Specification of matchPath applied to any prefix and path
\* ------------------------------------------------------------------------
InitMatch ==
  /\ mPrefix \in Paths
  /\ mPath \in Paths
  /\ mResult = Unset
  /\ NoCompose /\ NoEscape /\ NoHtml /\ NoMount /\ NoApp /\ NoRender
  /\ NoRequest /\ NoList /\ NoRuns

NextMatch == MatchCall /\ UNCHANGED <<composeVars, escVars, htmlVars, mountVars, appVars, renderVars, requestVars, listVars, runVars>>

SpecMatch == InitMatch /\ [][NextMatch]_vars

\* ------------------------------------------------------------------------
\* Specification of escape applied to any string
\* ------------------------------------------------------------------------
InitEscape ==
  /\ escIn \in SeqsUpTo(EscChars, MaxStrLen)
  /\ escOut = Unset
  /\ NoCompose /\ NoMatch /\ NoHtml /\ NoMount /\ NoApp /\ NoRender
  /\ NoRequest /\ NoList /\ NoRuns

NextEscape == EscapeCall /\ UNCHANGED <<composeVars, matchVars, htmlVars, mountVars, appVars, renderVars, requestVars, listVars, runVars>>

SpecEscape == InitEscape /\ [][NextEscape]_vars

\* ------------------------------------------------------------------------
\* Specification of one template rendered by one of its consumers
\* ------------------------------------------------------------------------
MaxVals == 2

\* the text of the root template's literal segments
LitNames == <<"p", "q", "r", "s", "t", "u">>
PlainLits(n) == [i \in 1..(n + 1) |-> <<LitNames[i]>>]
IndentedLits(n) == [i \in 1..(n + 1) |-> <<"\n", " ", " ", LitNames[i]>>]

\* the values interpolated into the root template
Samples ==
  { Str(<<"<">>),
    Null,
    Other(<<"&">>),
    Unsafe(<<"<">>),
    Html(<< <<"(">>, <<")">> >>, <<Str(<<"'">>)>>),
    Html(<< <<"[">>, <<"|">>, <<"]">> >>, <<Str(<<"a">>), Unsafe(<<">">>)>>),
    Arr(<<Str(<<"a">>), Html(<< <<"(">>, <<")">> >>, <<Unsafe(<<"&">>)>>)>>),
    Iter(<<Unsafe(<<"&">>), Null>>),
    Pending("p1", Arr(<<Html(<< <<"w">> >>, <<>>)>>)),
    Arr(<<Pending("p2", Str(<<"<">>)), Pending("p1", Arr(<<Html(<< <<"w">> >>, <<>>)>>))>>),
    Pending("p3", Rejection),
    Pending("p4", Null) }

Roots ==
  UNION {{Html(PlainLits(n), vs), Html(IndentedLits(n), vs)} :
           n \in 0..MaxVals, vs \in SeqsUpTo(Samples, MaxVals)} 

InitHtml ==
  /\ root \in {t \in Roots : Len(t.strs) = Len(t.vals) + 1}
  /\ consumer \in {"render", "respond", "pipe"}
  /\ itStack = IF consumer = "render" THEN NewIterator(root) ELSE <<>>
  /\ pFlush \in IF consumer = "pipe" THEN 0..MaxFlush ELSE {0}
  /\ HtmlIdle
  /\ NoCompose /\ NoMatch /\ NoEscape /\ NoMount /\ NoApp /\ NoRender
  /\ NoRequest /\ NoList /\ NoRuns

NextHtml ==
  \/ (IterNextCall /\ UNCHANGED <<composeVars, matchVars, escVars, mountVars, appVars, renderVars, requestVars, listVars, runVars>>)
  \/ (ToStringCall /\ UNCHANGED <<composeVars, matchVars, escVars, mountVars, appVars, renderVars, requestVars, listVars, runVars>>)
  \/ (ResolvePending /\ UNCHANGED <<composeVars, matchVars, escVars, mountVars, appVars, renderVars, requestVars, listVars, runVars>>)
  \/ (RespondStart /\ UNCHANGED <<composeVars, matchVars, escVars, mountVars, appVars, renderVars, requestVars, listVars, runVars>>)
  \/ (WriteStep /\ UNCHANGED <<composeVars, matchVars, escVars, mountVars, appVars, renderVars, requestVars, listVars, runVars>>)
  \/ (WriteResume /\ UNCHANGED <<composeVars, matchVars, escVars, mountVars, appVars, renderVars, requestVars, listVars, runVars>>)
  \/ (PipeStart /\ UNCHANGED <<composeVars, matchVars, escVars, mountVars, appVars, renderVars, requestVars, listVars, runVars>>)
  \/ (PipeStep /\ UNCHANGED <<composeVars, matchVars, escVars, mountVars, appVars, renderVars, requestVars, listVars, runVars>>)
  \/ (PipeResume /\ UNCHANGED <<composeVars, matchVars, escVars, mountVars, appVars, renderVars, requestVars, listVars, runVars>>)
  \/ (SinkDrain /\ UNCHANGED <<composeVars, matchVars, escVars, mountVars, appVars, renderVars, requestVars, listVars, runVars>>)
  \/ (SinkError /\ UNCHANGED <<composeVars, matchVars, escVars, mountVars, appVars, renderVars, requestVars, listVars, runVars>>)
  \/ (SinkFail /\ UNCHANGED <<composeVars, matchVars, escVars, mountVars, appVars, renderVars, requestVars, listVars, runVars>>)
  \/ (PipeFinish /\ UNCHANGED <<composeVars, matchVars, escVars, mountVars, appVars, renderVars, requestVars, listVars, runVars>>)

SpecHtml == InitHtml /\ [][NextHtml]_vars

\* ------------------------------------------------------------------------
\* Specification of toString over multi-line literal segments
\* ------------------------------------------------------------------------
MaxLitLen == 5

\* literal segments: every text of newlines, blanks and a letter
IndentLits == SeqsUpTo({"\n", " ", "x"}, MaxLitLen)
ShortLits == {l \in IndentLits : Len(l) <= MaxLitLen - 2}

\* a nested template with one indented line, alone and as array elements
Item == Html(<< <<"\n", " ", "x">> >>, <<>>)
IndentValues ==
  {Str(<<"a">>), Item, Arr(<<Item>>), Arr(<<Item, Item>>), Arr(<<Str(<<"a">>), Item>>)}

IndentRoots ==
  {Html(<<l>>, <<>>) : l \in IndentLits} \cup
  {Html(<<ls[1], ls[2]>>, <<v>>) : ls \in ShortLits \X ShortLits, v \in IndentValues}

InitIndent ==
  /\ root \in IndentRoots
  /\ consumer = "render"
  /\ itStack = NewIterator(root)
  /\ pFlush = 0
  /\ HtmlIdle
  /\ NoCompose /\ NoMatch /\ NoEscape /\ NoMount /\ NoApp /\ NoRender
  /\ NoRequest /\ NoList /\ NoRuns

NextIndent == ToStringCall /\ UNCHANGED <<composeVars, matchVars, escVars, mountVars, appVars, renderVars, requestVars, listVars, runVars>>

SpecIndent == InitIndent /\ [][NextIndent]_vars

\* ------------------------------------------------------------------------
\* Specification of one request through [A, mount(prefix, B), C]
\* ------------------------------------------------------------------------
InitMount ==
  /\ mountPrefix \in ReqPaths
  /\ inPath \in ReqPaths
  /\ kindB \in KindsB
  /\ kindC = "return"
  /\ MountIdle
  /\ NoCompose /\ NoMatch /\ NoEscape /\ NoHtml /\ NoApp /\ NoRender
  /\ NoRequest /\ NoList /\ NoRuns

NextMount ==
  \/ (MountInvoke /\ UNCHANGED <<composeVars, matchVars, escVars, htmlVars, appVars, renderVars, requestVars, listVars, runVars>>)
  \/ (ReadA1 /\ UNCHANGED <<composeVars, matchVars, escVars, htmlVars, appVars, renderVars, requestVars, listVars, runVars>>)
  \/ (MountEnter /\ UNCHANGED <<composeVars, matchVars, escVars, htmlVars, appVars, renderVars, requestVars, listVars, runVars>>)
  \/ (ReadB1 /\ UNCHANGED <<composeVars, matchVars, escVars, htmlVars, appVars, renderVars, requestVars, listVars, runVars>>)
  \/ (MountContinue /\ UNCHANGED <<composeVars, matchVars, escVars, htmlVars, appVars, renderVars, requestVars, listVars, runVars>>)
  \/ (ReadC /\ UNCHANGED <<composeVars, matchVars, escVars, htmlVars, appVars, renderVars, requestVars, listVars, runVars>>)
  \/ (MountBack /\ UNCHANGED <<composeVars, matchVars, escVars, htmlVars, appVars, renderVars, requestVars, listVars, runVars>>)
  \/ (ReadB2 /\ UNCHANGED <<composeVars, matchVars, escVars, htmlVars, appVars, renderVars, requestVars, listVars, runVars>>)
  \/ (MountExit /\ UNCHANGED <<composeVars, matchVars, escVars, htmlVars, appVars, renderVars, requestVars, listVars, runVars>>)
  \/ (ReadA2 /\ UNCHANGED <<composeVars, matchVars, escVars, htmlVars, appVars, renderVars, requestVars, listVars, runVars>>)

SpecMount == InitMount /\ [][NextMount]_vars

\* ------------------------------------------------------------------------
\* Specification of one request through [A, mount(prefix, B), C] with
\* middleware that throw
\* ------------------------------------------------------------------------
InitMountFault ==
  /\ mountPrefix \in ReqPaths
  /\ inPath \in ReqPaths
  /\ kindB \in FaultKindsB
  /\ kindC \in KindsC
  /\ MountIdle
  /\ NoCompose /\ NoMatch /\ NoEscape /\ NoHtml /\ NoApp /\ NoRender
  /\ NoRequest /\ NoList /\ NoRuns

NextMountFault ==
  \/ (MountInvoke /\ UNCHANGED <<composeVars, matchVars, escVars, htmlVars, appVars, renderVars, requestVars, listVars, runVars>>)
  \/ (ReadA1 /\ UNCHANGED <<composeVars, matchVars, escVars, htmlVars, appVars, renderVars, requestVars, listVars, runVars>>)
  \/ (MountEnter /\ UNCHANGED <<composeVars, matchVars, escVars, htmlVars, appVars, renderVars, requestVars, listVars, runVars>>)
  \/ (ReadB1 /\ UNCHANGED <<composeVars, matchVars, escVars, htmlVars, appVars, renderVars, requestVars, listVars, runVars>>)
  \/ (MountContinue /\ UNCHANGED <<composeVars, matchVars, escVars, htmlVars, appVars, renderVars, requestVars, listVars, runVars>>)
  \/ (ReadC /\ UNCHANGED <<composeVars, matchVars, escVars, htmlVars, appVars, renderVars, requestVars, listVars, runVars>>)
  \/ (MountBack /\ UNCHANGED <<composeVars, matchVars, escVars, htmlVars, appVars, renderVars, requestVars, listVars, runVars>>)
  \/ (ReadB2 /\ UNCHANGED <<composeVars, matchVars, escVars, htmlVars, appVars, renderVars, requestVars, listVars, runVars>>)
  \/ (MountExit /\ UNCHANGED <<composeVars, matchVars, escVars, htmlVars, appVars, renderVars, requestVars, listVars, runVars>>)
  \/ (ReadA2 /\ UNCHANGED <<composeVars, matchVars, escVars, htmlVars, appVars, renderVars, requestVars, listVars, runVars>>)
  \/ (MountReject /\ UNCHANGED <<composeVars, matchVars, escVars, htmlVars, appVars, renderVars, requestVars, listVars, runVars>>)
  \/ (CatchA /\ UNCHANGED <<composeVars, matchVars, escVars, htmlVars, appVars, renderVars, requestVars, listVars, runVars>>)

SpecMountFault == InitMountFault /\ [][NextMountFault]_vars

\* ------------------------------------------------------------------------
\* Specification of one request handled by App.#callback
\* ------------------------------------------------------------------------
InitApp ==
  /\ dev \in BOOLEAN
  /\ AppIdle
  /\ NoCompose /\ NoMatch /\ NoEscape /\ NoHtml /\ NoMount /\ NoRender
  /\ NoRequest /\ NoList /\ NoRuns

NextApp ==
  \/ (Receive /\ UNCHANGED <<composeVars, matchVars, escVars, htmlVars, mountVars, renderVars, requestVars, listVars, runVars>>)
  \/ (MwSetStatus /\ UNCHANGED <<composeVars, matchVars, escVars, htmlVars, mountVars, renderVars, requestVars, listVars, runVars>>)
  \/ (MwSetBody /\ UNCHANGED <<composeVars, matchVars, escVars, htmlVars, mountVars, renderVars, requestVars, listVars, runVars>>)
  \/ (MwWrite /\ UNCHANGED <<composeVars, matchVars, escVars, htmlVars, mountVars, renderVars, requestVars, listVars, runVars>>)
  \/ (MwSetHeader /\ UNCHANGED <<composeVars, matchVars, escVars, htmlVars, mountVars, renderVars, requestVars, listVars, runVars>>)
  \/ (MwRedirect /\ UNCHANGED <<composeVars, matchVars, escVars, htmlVars, mountVars, renderVars, requestVars, listVars, runVars>>)
  \/ (MwThrow /\ UNCHANGED <<composeVars, matchVars, escVars, htmlVars, mountVars, renderVars, requestVars, listVars, runVars>>)
  \/ (MwReturn /\ UNCHANGED <<composeVars, matchVars, escVars, htmlVars, mountVars, renderVars, requestVars, listVars, runVars>>)
  \/ (Respond /\ UNCHANGED <<composeVars, matchVars, escVars, htmlVars, mountVars, renderVars, requestVars, listVars, runVars>>)
  \/ (Catch /\ UNCHANGED <<composeVars, matchVars, escVars, htmlVars, mountVars, renderVars, requestVars, listVars, runVars>>)
  \/ (Finish /\ UNCHANGED <<composeVars, matchVars, escVars, htmlVars, mountVars, renderVars, requestVars, listVars, runVars>>)

SpecApp == InitApp /\ [][NextApp]_vars

\* ------------------------------------------------------------------------
\* Specification of one template rendered several times
\* ------------------------------------------------------------------------
RenderSamples ==
  { Str(<<"<">>),
    Null,
    Unsafe(<<"<">>),
    Html(<< <<"(">>, <<")">> >>, <<Str(<<"'">>)>>),
    Arr(<<Str(<<"a">>), Html(<< <<"(">>, <<")">> >>, <<Unsafe(<<"&">>)>>)>>),
    Iter(<<Unsafe(<<"&">>), Null>>),
    OneShot("g1", <<Str(<<"a">>), Str(<<"b">>)>>),
    Arr(<<OneShot("g2", <<Str(<<"c">>)>>)>>),
    Pending("p1", Str(<<"w">>)) }

RenderRoots ==
  UNION {{Html(PlainLits(Len(vs)), vs), Html(IndentedLits(Len(vs)), vs)} :
           vs \in SeqsUpTo(RenderSamples, MaxVals)}

InitRender ==
  /\ root \in RenderRoots
  /\ consumer = "rerender"
  /\ itStack = <<>>
  /\ pFlush = 0
  /\ HtmlIdle
  /\ NoRender
  /\ NoCompose /\ NoMatch /\ NoEscape /\ NoMount /\ NoApp
  /\ NoRequest /\ NoList /\ NoRuns

NextRender ==
  \/ (RenderToString /\ UNCHANGED <<composeVars, matchVars, escVars, mountVars, appVars, requestVars, listVars, runVars>>)
  \/ (RenderIterate /\ UNCHANGED <<composeVars, matchVars, escVars, mountVars, appVars, requestVars, listVars, runVars>>)

SpecRender == InitRender /\ [][NextRender]_vars

\* ------------------------------------------------------------------------
\* Specification of the getters of any request
\* ------------------------------------------------------------------------
InitRequest ==
  /\ rq \in Requests
  /\ rqOut = NoGetters
  /\ NoCompose /\ NoMatch /\ NoEscape /\ NoHtml /\ NoMount /\ NoApp /\ NoRender
  /\ NoList /\ NoRuns

NextRequest == ReadRequest /\ UNCHANGED <<composeVars, matchVars, escVars, htmlVars, mountVars, appVars, renderVars, listVars, runVars>>

SpecRequest == InitRequest /\ [][NextRequest]_vars

\* ------------------------------------------------------------------------
\* Specification of a URLPatternList that is added to and matched against
\* ------------------------------------------------------------------------
InitList ==
  /\ items = <<>>
  /\ lOut = NoCall
  /\ NoCompose /\ NoMatch /\ NoEscape /\ NoHtml /\ NoMount /\ NoApp /\ NoRender
  /\ NoRequest /\ NoRuns

NextList ==
  \/ (AddPattern /\ UNCHANGED <<composeVars, matchVars, escVars, htmlVars, mountVars, appVars, renderVars, requestVars, runVars>>)
  \/ (Match /\ UNCHANGED <<composeVars, matchVars, escVars, htmlVars, mountVars, appVars, renderVars, requestVars, runVars>>)

SpecList == InitList /\ [][NextList]_vars

\* ------------------------------------------------------------------------
\* Specification of two interleaved invocations of one composed chain
\* ------------------------------------------------------------------------
InitRuns ==
  /\ chain \in Chains
  /\ ComposeIdle
  /\ runs = [i \in Invocations |-> NewRun]
  /\ guards = [i \in Invocations |-> FreshGuards]
  /\ NoMatch /\ NoEscape /\ NoHtml /\ NoMount /\ NoApp /\ NoRender
  /\ NoRequest /\ NoList

NextRuns ==
  \/ (Invoke2 /\ UNCHANGED <<composeVars, matchVars, escVars, htmlVars, mountVars, appVars, renderVars, requestVars, listVars>>)
  \/ (Pre2 /\ UNCHANGED <<composeVars, matchVars, escVars, htmlVars, mountVars, appVars, renderVars, requestVars, listVars>>)
  \/ (CallTerminal2 /\ UNCHANGED <<composeVars, matchVars, escVars, htmlVars, mountVars, appVars, renderVars, requestVars, listVars>>)
  \/ (CallDownstream2 /\ UNCHANGED <<composeVars, matchVars, escVars, htmlVars, mountVars, appVars, renderVars, requestVars, listVars>>)
  \/ (CallGuardFault2 /\ UNCHANGED <<composeVars, matchVars, escVars, htmlVars, mountVars, appVars, renderVars, requestVars, listVars>>)
  \/ (Post2 /\ UNCHANGED <<composeVars, matchVars, escVars, htmlVars, mountVars, appVars, renderVars, requestVars, listVars>>)
  \/ (Return2 /\ UNCHANGED <<composeVars, matchVars, escVars, htmlVars, mountVars, appVars, renderVars, requestVars, listVars>>)
  \/ (Propagate2 /\ UNCHANGED <<composeVars, matchVars, escVars, htmlVars, mountVars, appVars, renderVars, requestVars, listVars>>)

SpecRuns == InitRuns /\ [][NextRuns]_vars

\* ------------------------------------------------------------------------
\* Claims about compose
\* ------------------------------------------------------------------------
IsPrefix(s, t) == Len(s) <= Len(t) /\ SubSeq(t, 1, Len(s)) = s

AllAwait == \A i \in 1..Len(chain) : chain[i] = "await"

\* pre-tokens of middleware 1..n in list order
PreTokens(n) == [i \in 1..n |-> [ph |-> "pre", id |-> i]]
\* post-tokens of middleware n..1, in reverse list order
PostTokens(n) == [i \in 1..n |-> [ph |-> "post", id |-> n + 1 - i]]

\* C1: when every middleware of the list writes a pre-token, awaits its
\* continue and writes a post-token, the tokens appear as all pre-tokens in
\* list order followed by all post-tokens in reverse list order; at every
\* moment the log is a prefix of that sequence, and the composed promise is
\* resolved only once the whole sequence (ending with the first
\* middleware's post-token) has been written.
C1_OnionOrder ==
  AllAwait =>
    LET expected == PreTokens(Len(chain)) \o PostTokens(Len(chain))
    IN /\ IsPrefix(log, expected)
       /\ status = "resolved" => log = expected
       /\ status # "rejected"

C1_Witness ==
  /\ status = "resolved"
  /\ chain = <<"await", "await", "await">>
  /\ log[Len(log)] = [ph |-> "post", id |-> 1]

\* C2: no invocation of a middleware ever gets past a second call of its
\* continue callback: the second call raises a fault, at every position of
\* the chain and for every chain length >= 1.
C2_SecondContinueFaults ==
  \A i \in 1..Len(stack) : stack[i].cl # 0 => stack[i].calls < 2

\* C3: if the middleware at position k returns without calling its
\* continue, no middleware after position k runs and the terminal continue
\* does not run; and if every middleware before k awaits its continue once,
\* the composed promise resolves with the log pre 1..k, post k-1..1.
C3_StopCutsDownstream ==
  \A k \in 1..Len(chain) :
    chain[k] = "stop" =>
      /\ \A e \in Range(log) : e.id <= k
      /\ termCalls = 0
      /\ (\A i \in 1..(k - 1) : chain[i] = "await") =>
           /\ IsPrefix(log, PreTokens(k) \o PostTokens(k - 1))
           /\ status = "resolved" => log = PreTokens(k) \o PostTokens(k - 1)
           /\ status # "rejected"

C3_Witness ==
  /\ status = "resolved"
  /\ chain = <<"await", "stop", "await">>
  /\ log = <<[ph |-> "pre", id |-> 1], [ph |-> "pre", id |-> 2], [ph |-> "post", id |-> 1]>>

\* ------------------------------------------------------------------------
\* Claims about escape and matchPath
\* ------------------------------------------------------------------------
\* the named HTML entity of each of the five characters
NamedEntity(c) ==
  CASE c = "&" -> <<"&", "a", "m", "p", ";">>
    [] c = "<" -> <<"&", "l", "t", ";">>
    [] c = ">" -> <<"&", "g", "t", ";">>
    [] c = "\"" -> <<"&", "q", "u", "o", "t", ";">>
    [] c = "'" -> <<"&", "a", "p", "o", "s", ";">>
    [] OTHER -> <<c>>

\* C6: escape(s) is s with every & < > " ' replaced by &amp; &lt; &gt;
\* &quot; &apos; respectively and every other character unchanged.
C6_EscapeNamedEntities ==
  escOut.done => escOut.v = Concat([i \in 1..Len(escIn) |-> NamedEntity(escIn[i])])

\* C10: for a prefix without trailing slash a path matches iff it is the
\* prefix or continues with "/" right after it; for a prefix with trailing
\* slash a path matches iff it starts with the prefix.  The remainder is
\* the rest of the path from that slash on ("/" when nothing is left), and
\* always starts with "/".
C10_MountPrefixMatch ==
  mResult.done =>
    LET rest == substring(mPath, Len(mPrefix))
    IN /\ ~endsWithSlash(mPrefix) =>
            /\ mResult.ok <=> (mPath = mPrefix \/ startsWith(mPath, mPrefix \o <<"/">>))
            /\ mResult.ok => mResult.v = (IF mPath = mPrefix THEN <<"/">> ELSE rest)
       /\ endsWithSlash(mPrefix) =>
            /\ mResult.ok <=> startsWith(mPath, mPrefix)
            /\ mResult.ok => mResult.v = <<"/">> \o rest
       /\ mResult.ok => mResult.v # <<>> /\ mResult.v[1] = "/"

\* prefix /a, path /a/b: matched, remainder /b
C10_Witness ==
  /\ mResult.done /\ mResult.ok
  /\ mPrefix = <<"/", "a">>
  /\ mPath = <<"/", "a", "/", "b">>
  /\ mResult.v = <<"/", "b">>

\* ------------------------------------------------------------------------
\* Claims about mount
\* ------------------------------------------------------------------------
ReadsOf(who) == SelectSeq(reads, LAMBDA r : r.who = who)
Whos == [i \in 1..Len(reads) |-> reads[i].who]
Matches == matchPath(mountPrefix, inPath).ok
Remainder == matchPath(mountPrefix, inPath).v

\* C11: in [A, mount(prefix, B), C] with A and B awaiting their continue, on
\* a match A reads the full path before and after, B the remainder before
\* and after, and C, inside B's continue, the full path; without a match B
\* does not run and A and C read the unchanged path.
C11_MountRestoresPath ==
  kindB = "await" =>
    /\ \A i \in 1..Len(reads) :
         /\ reads[i].who \in {"A", "C"} => reads[i].path = inPath
         /\ reads[i].who = "B" => Matches /\ reads[i].path = Remainder
    /\ mountPc = "done" =>
         Whos = IF Matches THEN <<"A", "B", "C", "B", "A">> ELSE <<"A", "C", "A">>

\* the request /a/b through mount("/a", B): A, B, C, B, A have read
C11_Witness ==
  /\ kindB = "await"
  /\ mountPc = "done"
  /\ mountPrefix = <<"/", "a">>
  /\ inPath = <<"/", "a", "/", "b">>
  /\ [i \in 1..Len(reads) |-> reads[i].path] =
       << <<"/", "a", "/", "b">>, <<"/", "b">>, <<"/", "a", "/", "b">>, <<"/", "b">>,
          <<"/", "a", "/", "b">> >>

\* C12 as stated: what the mounted middleware reads before and after its
\* continue is the outer path.
C12_MountedReadsOuterPath ==
  \A i \in 1..Len(reads) : reads[i].who = "B" => reads[i].path = inPath

\* C12 amended: what the mounted middleware reads before and after its
\* continue is the mounted subpath, matchPath(prefix, outer path), both times.
C12_MountedReadsSubpath ==
  /\ \A i \in 1..Len(reads) :
       reads[i].who = "B" => Matches /\ reads[i].path = Remainder
  /\ (mountPc = "done" /\ Matches /\ kindB = "await") =>
       [i \in 1..Len(ReadsOf("B")) |-> ReadsOf("B")[i].ph] = <<"pre", "post">>

\* B, mounted at /a, has read /b before and after its continue while the
\* outer path is /a/b
C12_Witness ==
  /\ mountPc = "done"
  /\ inPath = <<"/", "a", "/", "b">>
  /\ Len(ReadsOf("B")) = 2
  /\ ReadsOf("B")[1].path = <<"/", "b">>
  /\ ReadsOf("B")[2].path = <<"/", "b">>
  /\ ReadsOf("B")[2].ph = "post"

\* ------------------------------------------------------------------------
\* Claims about App and Response
\* ------------------------------------------------------------------------
Faulted == thrown # NoError
AfterCatch == Faulted /\ cbPc \in {"finish", "done", "escaped"}
DefaultStatus == IF hist.bodySet THEN 200 ELSE 404

C14_ExplicitStatusKept ==
  (hist.explicit /\ ~Faulted) =>
    /\ res.statusCode = hist.last
    /\ (cbPc = "done" /\ ~hist.wrote) => res.sentStatus = hist.last

\* status 203 and a body were assigned: the response went out with 203
C14_Witness ==
  /\ cbPc = "done" /\ ~Faulted
  /\ hist.explicit /\ hist.last = 203 /\ hist.bodySet
  /\ res.sentStatus = 203
  /\ res.out = << <<"Hello">> >>

SamePublic(e1, e2) ==
  /\ e1.cls = e2.cls
  /\ e1.status = e2.status
  /\ e1.cls = "HttpError" => e1.message = e2.message

Secrets(e) ==
  ({e.privateMessage, e.stack} \cup (IF e.cls = "HttpError" THEN {} ELSE {e.message}))
  \ {"none"}

\* C16: with dev off, what the catch block makes of the response is the
\* same for every error with the same public part, and nothing it writes
\* contains the private message, the stack or a plain error's message.
C16_NoLeakWithoutDev ==
  (~dev /\ Faulted /\ cbPc = "finish") =>
    /\ \A e2 \in Errors : SamePublic(thrown, e2) => CatchBlock(dev, e2, atFault).res = res
    /\ \A i \in (Len(atFault.out) + 1)..Len(res.out) : Range(res.out[i]) \cap Secrets(thrown) = {}

\* dev off, an HttpError with a private message was caught: only its public
\* message was written
C16_Witness ==
  /\ ~dev /\ cbPc = "finish"
  /\ thrown.cls = "HttpError" /\ thrown.privateMessage = "Private 1"
  /\ res.out = << <<"Public">> >>

\* C17: when the callback is over, end() has been called on the transport
\* response exactly once.
C17_EndedExactlyOnce ==
  cbPc \in {"done", "escaped"} => res.endCalls = 1

\* C18: the catch block assigns no status code and sets no header once the
\* headers have been sent.
C18_NoStatusAfterHeadersSent ==
  AfterCatch => res.late = atFault.late

\* C19: no error leaves the callback, and when the callback is over the
\* response is ended.
C19_FaultsContained ==
  /\ cbPc # "escaped"
  /\ cbPc = "done" => res.finished

\* ------------------------------------------------------------------------
\* Claims about rendering a template again
\* ------------------------------------------------------------------------
\* C20: every toString() of a node returns what the earlier ones returned,
\* every fresh iteration yields the chunks the earlier ones yielded, and the
\* node's strings and values are what they were.
C20_RenderRestartable ==
  /\ \A i, j \in 1..Len(renders) :
       renders[i].kind = renders[j].kind => renders[i].out = renders[j].out
  /\ \A i \in 1..Len(renders) : renders[i].node = root

\* the same, for the nodes none of whose values is a one-shot iterable
RestartableWithoutOneShot ==
  (toStringSpends(root) = {}) => C20_RenderRestartable

\* ------------------------------------------------------------------------
\* Claims about templates
\* ------------------------------------------------------------------------
\* The leaves of a value in document order: every literal segment and every
\* interpolated value, nested templates, arrays and iterables flattened
\* depth-first in place.
RECURSIVE DocOrder(_)
DocOrder(v) ==
  CASE v.k = "html" ->
         <<Literal(v.strs[1])>> \o
         Concat([i \in 1..Len(v.vals) |-> DocOrder(v.vals[i]) \o <<Literal(v.strs[i + 1])>>])
    [] v.k \in {"array", "iterable"} -> Concat([i \in 1..Len(v.vals) |-> DocOrder(v.vals[i])])
    [] OTHER -> <<v>>

HasPending(v) == PendingIds(v) # {}

HtmlEscaped(str) == Concat([i \in 1..Len(str) |-> NamedEntity(str[i])])

ChunkTexts == Concat([i \in 1..Len(chunks) |-> chunks[i].text])

\* C4: a completed iteration of a template has yielded literal[0],
\* value[0], literal[1], ..., literal[n] in that order, none omitted, for
\* every number n of values, with nested templates, arrays and iterables
\* flattened depth-first in place.
C4_IterationDocumentOrder ==
  (consumer = "render" /\ itDone) =>
    [i \in 1..Len(chunks) |-> chunks[i].src] = DocOrder(root)

\* C5: every chunk of the lazy sequence that renders a plain string or
\* another value that is no template, iterable, unsafe or pending value is
\* that value HTML-escaped, a chunk that renders an unsafe value is its raw
\* string; and so is every chunk respond() writes for a template body.
C5_ChunksEscaped ==
  /\ \A i \in 1..Len(chunks) :
       /\ chunks[i].src.k = "string" => chunks[i].text = HtmlEscaped(chunks[i].src.s)
       /\ chunks[i].src.k = "other" => chunks[i].text = HtmlEscaped(StringOf(chunks[i].src))
       /\ chunks[i].src.k = "unsafe" => chunks[i].text = chunks[i].src.s
  /\ \A i \in 1..Len(written) :
       written[i].src.k = "string" => written[i].text = HtmlEscaped(written[i].src.s)

NonBlank(str) == SelectSeq(str, LAMBDA c : c \notin Blank)

PipedPieces == sink.out \o sink.held

C8_ToStringIsIteration ==
  (consumer = "render" /\ strOut.done /\ itDone /\ ~HasPending(root)) =>
    Texts(strOut.v) = ChunkTexts

WrittenTexts == [i \in 1..Len(written) |-> written[i].text]

\* C9: whatever the order in which the pending values of a template body
\* resolve, what respond() has written so far is a prefix of the strings of
\* the body with every pending value expanded in place, and is all of them
\* once the response is ended.
C9_StreamInDocumentOrder ==
  consumer = "respond" =>
    /\ IsPrefix(WrittenTexts, waitForResult(root))
    /\ wStatus = "ended" => WrittenTexts = waitForResult(root)

\* the body [p2 -> "<", p1 -> [html`w`]] inside a template: p1 resolved
\* first, p2 awaited first, all of it written
C9_Witness ==
  /\ consumer = "respond"
  /\ wStatus = "ended"
  /\ root.strs = <<<<"p">>, <<"q">>>>
  /\ Len(root.vals) = 1 /\ root.vals[1].k = "array"
  /\ PendingIds(root) = {"p1", "p2"}
  /\ WrittenTexts = <<<<"p">>, <<"<">>, <<"w">>, <<"q">>>>

\* ------------------------------------------------------------------------
\* Claims about pipeToWritable
\* ------------------------------------------------------------------------
\* C21: once a write to the sink has reported backpressure, whether the
\* write was of a literal segment or of an interpolated value, the writer
\* hands nothing more to the sink until the sink has drained.
C21_NoWriteUntilDrain ==
  [][(consumer = "pipe" /\ sink.full /\ ~sink.failed) =>
       Len(sink.out' \o sink.held') = Len(sink.out \o sink.held)]_vars

\* C22: with a flush size N > 0 the sink is corked while the writer runs,
\* and a round of the writer's loop that starts with at least N bytes
\* pending (exactly N included) flushes them to the sink.
C22_FlushAtThreshold ==
  /\ []((pFlush > 0 /\ pipe.status = "running") => sink.corked > 0)
  /\ [][(pFlush > 0 /\ pipe.status = "running" /\ pipe.stack # <<>> /\ pipe' # pipe
          /\ pipe.writeSize >= pFlush) =>
         IsPrefix(sink.out \o sink.held, sink'.out)]_vars

\* C23: while the writer is suspended on a pending value, no byte it has
\* written is held back by a cork.
C23_FlushedBeforeAwait ==
  (consumer = "pipe" /\ pipe.status = "awaitPromise") => Texts(sink.held) = <<>>

\* the writer awaits a pending value with a flush size that had not been
\* reached: what it wrote before is out, nothing is held
C23_Witness ==
  /\ consumer = "pipe"
  /\ pipe.status = "awaitPromise"
  /\ pFlush = MaxFlush
  /\ sink.corked > 0
  /\ Len(sink.out) = 1
  /\ byteLength(sink.out[1].text) < pFlush

\* C24: pipeToWritable never ends or closes the sink, whether it completes,
\* rejects because a pending value rejected, or rejects because the sink
\* failed.
C24_SinkNeverEnded ==
  consumer = "pipe" => sink.ends = 0

\* pipeToWritable has completed after awaiting a pending value, and the
\* sink has everything and is still open
C24_Witness ==
  /\ consumer = "pipe"
  /\ pipe.status = "done"
  /\ pFlush > 0
  /\ resolved # {}
  /\ Len(sink.out) > 1
  /\ sink.held = <<>>
  /\ sink.ends = 0

\* C25: once pipeToWritable has completed, the strings it has written are,
\* concatenated, the chunks of the template's iteration with every pending
\* value awaited and expanded in place.
C25_PipeEqualsIteration ==
  (consumer = "pipe" /\ pipe.status = "done" /\ ~sink.failed) =>
    Texts(PipedPieces) = Concat(waitForResult(root))

\* C26: once the sink has failed, the writer hands it nothing more, and
\* pipeToWritable does not complete: it rejects.
C26_SinkFailureIsTerminal ==
  consumer = "pipe" =>
    /\ sink.late = 0
    /\ sink.failed => pipe.status # "done"

\* ------------------------------------------------------------------------
\* Claims about Response.respond
\* ------------------------------------------------------------------------
\* the Content-Type respond() leaves behind: the one that was set, or else
\* the given default
TypeAfter(before, default) == IF before = "none" THEN default ELSE before

C28_TemplateBody ==
  [][(cbPc = "respond" /\ resp.body.k = "html" /\ cbPc' = "finish") =>
       /\ res'.ctype = TypeAfter(res.ctype, "text/html; charset=utf-8")
       /\ res'.clen = res.clen
       /\ res'.out = res.out \o [i \in 1..Len(resp.body.chunks) |-> <<resp.body.chunks[i]>>]
       /\ res'.finished
       /\ res'.endCalls = res.endCalls + 1]_vars

\* a template body of two chunks has been sent as text/html without a
\* Content-Length
C28_Witness ==
  /\ cbPc = "finish"
  /\ resp.body.k = "html"
  /\ res.ctype = "text/html; charset=utf-8"
  /\ res.clen = -1
  /\ res.out = << <<"<h1>">>, <<"</h1>">> >>
  /\ res.finished

\* C29: respond() with a Buffer or a Uint8Array body sets Content-Type to
\* application/octet-stream only if no Content-Type is set, sets
\* Content-Length to the byte length of the body (the length setter leaves
\* it alone under a Transfer-Encoding header, C30), writes the bytes and
\* ends the response.
C29_BinaryBody ==
  [][(cbPc = "respond" /\ resp.body.k \in {"buffer", "uint8array"} /\ cbPc' = "finish") =>
       /\ res'.ctype = TypeAfter(res.ctype, "application/octet-stream")
       /\ res.tenc = "none" => res'.clen = resp.body.bytes
       /\ res'.out = res.out \o <<resp.body.chunks>>
       /\ res'.finished
       /\ res'.endCalls = res.endCalls + 1]_vars

\* C30: no step of the Response sets or changes Content-Length while a
\* Transfer-Encoding header is present: not respond(), not the length
\* setter, not a body assignment.
C30_NoLengthUnderTransferEncoding ==
  [][res.tenc # "none" => res'.clen = res.clen]_vars

\* a string body has been sent under Transfer-Encoding: chunked, without a
\* Content-Length
C30_Witness ==
  /\ cbPc = "done"
  /\ resp.body.k = "string"
  /\ res.tenc = "chunked"
  /\ res.clen = -1
  /\ res.sentStatus = 200
  /\ res.out = << <<"Hello">> >>

\* ------------------------------------------------------------------------
\* Claims about redirect and the status message
\* ------------------------------------------------------------------------
\* where redirect(target) is to lead: the target itself, resolved against
\* the request's URL if it is relative; for BACK the Referer, or '/'
Destination(target, referer) ==
  CASE target = "BACK" /\ referer # "none" -> referer
    [] target = "BACK" /\ referer = "none" -> "/"
    [] target = "./next" -> "http://a.example/dir/next"
    [] OTHER -> target

Is3xx(code) == code \in 300..399

\* C31: a redirect(target) that returns has set Location to the target and
\* left a status code in 300..399: a status that was 3xx is unchanged, any
\* other becomes 302, and the fallback body redirect assigns has not
\* changed it.
C31_RedirectStatus ==
  [][hist'.redirects = hist.redirects + 1 =>
       /\ res'.location = Destination(hist'.target, hist'.referer)
       /\ Is3xx(res'.statusCode)
       /\ Is3xx(res.statusCode) => res'.statusCode = res.statusCode
       /\ ~Is3xx(res.statusCode) => res'.statusCode = 302
       /\ resp'.body.k = "string"]_vars

\* redirect('/redirected') on a fresh response: 302 and the Location went
\* out with the fallback body
C31_Witness ==
  /\ cbPc = "done" /\ ~Faulted
  /\ hist.redirects = 1 /\ hist.target = "/redirected"
  /\ ops = 1
  /\ res.sentStatus = 302
  /\ res.location = "/redirected"
  /\ resp.body.k = "string"

\* C38: as long as nothing threw, the status message of the response is
\* the standard reason phrase of its current status code (no middleware
\* here assigns statusMessage itself).
C38_MessageFollowsStatus ==
  (cbPc # "idle" /\ ~Faulted) => res.statusMessage = STATUS_CODES(res.statusCode)

\* ------------------------------------------------------------------------
\* Claims about the Request getters
\* ------------------------------------------------------------------------
\* the request q with other X-Forwarded-Proto and X-Forwarded-Host headers
Forwarded(q, xp, xh) == [q EXCEPT !.xfProto = xp, !.xfHost = xh]

\* C32: with proxy trust disabled, protocol, host and origin are the same
\* for every request that differs from this one only in X-Forwarded-Proto
\* and X-Forwarded-Host; and on an encrypted transport the protocol is
\* https whatever the forwarded header says.
C32_ForwardedIgnoredUntrusted ==
  rqOut.done =>
    /\ ~rq.trustProxy =>
         \A xp \in ForwardedProtos, xh \in ForwardedHosts :
           Getters(Forwarded(rq, xp, xh)) = rqOut.v
    /\ rq.encrypted => rqOut.v.protocol = "https"

\* an untrusted plain request carrying forwarded headers: http and its own
\* Host
C32_Witness ==
  /\ rqOut.done
  /\ ~rq.trustProxy /\ ~rq.encrypted
  /\ rq.xfProto = "https" /\ rq.xfHost = "evil.example" /\ rq.host = "a.example"
  /\ rqOut.v = [protocol |-> "http", host |-> "a.example",
                origin |-> <<"http", "://", "a.example">>]

\* ------------------------------------------------------------------------
\* Claims about URLPatternList
\* ------------------------------------------------------------------------
\* the patterns' own matching, spelt out: a literal pathname matches
\* itself, a pathname ending in a named group matches any one segment there
Accepts(pattern, path) ==
  \/ pattern = path
  \/ pattern = "/items/:id" /\ path \in {"/items/123", "/items/special"}
  \/ pattern = "/books/:bookId" /\ path = "/books/1"

\* C33: match returns the value of the earliest-added pattern that matches
\* the path, whatever was added after it, and null when no pattern matches
\* or the list is empty.
C33_FirstAddedWins ==
  lOut.done =>
    LET hits == {k \in 1..lOut.n : Accepts(items[k].pattern, lOut.path)}
    IN /\ hits = {} => ~lOut.result.found
       /\ hits # {} =>
            /\ lOut.result.found
            /\ lOut.result.value = items[MinOf(hits)].value

\* '/items/:id' was added before '/items/special': '/items/special'
\* matches the first
C33_Witness ==
  /\ lOut.done /\ lOut.n = 2 /\ lOut.path = "/items/special"
  /\ items[1].pattern = "/items/:id" /\ items[2].pattern = "/items/special"
  /\ lOut.result.value = 1
  /\ lOut.result.groups = [name |-> "id", value |-> "special"]

\* ------------------------------------------------------------------------
\* Claims about interleaved invocations
\* ------------------------------------------------------------------------
\* C37: an invocation of the composed function gets the 'called more than
\* once' fault only if it has itself called one continue twice, whatever
\* the other invocation does in between; and it runs every middleware at
\* most once.
C37_GuardPerInvocation ==
  \A i \in DOMAIN runs :
    /\ runs[i].err = TooMany => \E j \in 1..Len(chain) : runs[i].asked[j] >= 2
    /\ \A j \in 1..Len(chain) : runs[i].ran[j] <= 1

\* both invocations of a chain of two awaiting middleware are in the
\* second middleware at the same time
C37_Witness ==
  /\ chain = <<"await", "await">>
  /\ \A i \in DOMAIN runs :
       /\ runs[i].status = "running"
       /\ Len(runs[i].stack) = 3
       /\ runs[i].ran = <<1, 1>>
  /\ DOMAIN runs = Invocations

\* ------------------------------------------------------------------------
\* Claims about cork and uncork in pipeToWritable
\* ------------------------------------------------------------------------
\* C40: pipeToWritable never holds more than one cork on the sink, never
\* corks when flushSize is 0, and has matched every cork with an uncork
\* when it has settled, fulfilled or rejected.
C40_CorkBalanced ==
  consumer = "pipe" =>
    /\ sink.corked <= 1
    /\ pFlush = 0 => sink.corked = 0
    /\ pipe.status \in {"done", "failed"} => sink.corked = 0

\* ------------------------------------------------------------------------
\* Claims about pending values in respond()
\* ------------------------------------------------------------------------
\* v is, or holds, a pending value that rejects
RECURSIVE Rejects(_)
Rejects(v) == v = Rejection \/ \E i \in 1..Len(v.vals) : Rejects(v.vals[i])

\* C34: when the pending value that respond() awaits resolves, respond()
\* does not fault, and for a string it writes the HTML-escaped text.
C34_PendingRendered ==
  [][(consumer = "respond" /\ wStatus = "awaiting" /\ wStatus' # "awaiting") =>
       LET v == wAwait.vals[1]
       IN /\ ~Rejects(v) => wStatus' # "failed"
          /\ v.k = "string" =>
               /\ Len(written') = Len(written) + 1
               /\ Last(written').text = escape(v.s)]_vars

\* ------------------------------------------------------------------------
\* Claims about mount when a middleware throws
\* ------------------------------------------------------------------------
\* the middleware returned by mount has settled: resolved (A goes on after
\* its continue) or rejected (A has caught the error)
MountSettled == mountPc \in {"A2", "caught"}

\* C39: whenever the middleware returned by mount settles, resolved or
\* rejected, req.path is the path it had when mount was entered, and an
\* upstream middleware that catches the error reads the full path.
C39_PathRestoredOnSettle ==
  /\ MountSettled => reqPath = inPath
  /\ \A i \in 1..Len(reads) :
       (reads[i].who = "A" /\ reads[i].ph = "catch") => reads[i].path = inPath

\* ------------------------------------------------------------------------
\* Claims about indentation in toString
\* ------------------------------------------------------------------------
\* the positions of the newlines of str that are followed by a non-empty
\* line, and the least leading-whitespace width over all such lines of all
\* the segments (-1 when there is none)
LineStarts(str) ==
  {p \in 1..Len(str) :
     /\ str[p] = "\n"
     /\ p + BlankRun(str, p + 1) + 1 <= Len(str)
     /\ str[p + BlankRun(str, p + 1) + 1] \notin WhiteSpace}
LineMinIndent(strs) ==
  LET widths == UNION {{BlankRun(strs[i], p + 1) : p \in LineStarts(strs[i])} :
                         i \in 1..Len(strs)}
  IN IF widths = {} THEN -1 ELSE MinOf(widths)

\* C35: the indent toString strips from every line is the least leading
\* whitespace over every non-empty line that follows a newline in any
\* literal segment of the node; a node of one segment is rendered as that
\* segment with this indent stripped from each line.
C35_MinIndentOverAllLines ==
  strOut.done =>
    /\ minIndentOf(root.strs) = LineMinIndent(root.strs)
    /\ root.vals = <<>> =>
         Texts(strOut.v) = fixIndent(LineMinIndent(root.strs), 0, root.strs[1])

\* what toString makes of the value e interpolated directly where the
\* value of the one-value node t is
DirectAt(t, e) ==
  LET pieces == partialPieces(Html(t.strs, <<e>>), 0)
  IN SubSeq(pieces, 2, Len(pieces) - 1)

\* C36: the elements of an interpolated array are stringified as they
\* would be if each were interpolated directly at the array's position,
\* whatever their position in the array.
C36_ElementsAtCurrentIndent ==
  (strOut.done /\ Len(root.vals) = 1 /\ root.vals[1].k = "array") =>
    SubSeq(strOut.v, 2, Len(strOut.v) - 1) =
      Concat([i \in 1..Len(root.vals[1].vals) |-> DirectAt(root, root.vals[1].vals[i])])


====
